---- MODULE Spec2Model ----
(***************************************************************************)
(* A model of the document-extraction engine of ji-renamer: the ZIP        *)
(* container writer (createStoredZip) and reader (parseZipEntries), the    *)
(* Word extractor (extractDocxText), the legacy-binary conversion          *)
(* orchestrator (convertBinaryOfficeToDocx / readFileContent) and the PDF  *)
(* extraction pipeline (extractPdf).                                       *)
(*                                                                         *)
(* Buffers are sequences of bytes (0..255); JavaScript strings are         *)
(* sequences of code points.  Offsets passed to the read/write helpers are *)
(* 0-based as in the source; TLA+ sequences are 1-based.                   *)
(***************************************************************************)
EXTENDS Integers, Sequences, FiniteSets, TLC

VARIABLES
  \* ---- writer -> reader -> Word extractor (buildDocxBuffer, readDocxLike)
  lines,        \* the salvaged lines handed to buildDocxBuffer
  docxBuf,      \* the bytes returned by buildDocxBuffer
  docxEntries,  \* the result of parseZipEntries on docxBuf
  docxText,     \* the string returned by extractDocxText
  docxPc,       \* "input" | "built" | "parsed" | "extracted"
  \* ---- parseZipEntries on arbitrary archives
  zipDesc,      \* the description of the archive zipBuf was laid out from
  zipBuf,       \* the buffer handed to parseZipEntries
  zipOut,       \* its outcome: [kind, entries]
  zipPc,        \* "input" | "parsed"
  \* ---- legacy conversion (readFileContent, convertBinaryOfficeToDocx)
  legEnv,       \* the environment of the call, see LegacyEnvs
  legPc,        \* "start" | "module" | "cli" | "salvage" | "converted" | "returned"
  legLog,       \* the steps taken so far, in order
  tempDir,      \* the scratch directory exists
  tempDocx,     \* the file at tempPath: [exists, data]
  cleaned,      \* the flag of the cleanup closure
  legLines,     \* the lines extractBinaryLines returned
  legResult,    \* what readFileContent returned or threw: [kind, text, message]
  \* ---- PDF pipeline (extractPdf)
  pdfEnv,       \* the environment of the call, see PdfEnvs
  pdfPc,        \* "start" | "parser" | "ocr" | "budget" | "done" | "failed"
  pdfLog,       \* the collaborators called so far: [tool, yield]
  rawText,      \* the text obtained so far
  totalPages,   \* the page count learnt so far, NULL when unknown
  processedPages, \* the pages worked on, NULL when unknown
  usedPoppler,  \* the fast path delivered the text
  pdfOut,       \* what extractPdf returned or threw
  warningIssued, \* the four module-level flags ...WarningIssued
  warnings,     \* what logger.warn was called with, in order
  rasterDirs,   \* the rasterization directories that exist
  pagesRead,    \* how many pages each collaborator was made to read
  renderCalls,  \* the limits renderPdfPageImages was invoked with
  ocrRun,       \* the OCR fallback: page images, pages read, metadata.pages
  \* ---- rename loop (runRenamer)
  renOptions,   \* the options of the run, see RenOptions
  renFiles,     \* the names of the discovered files, in order
  renNext,      \* the index of the file the loop handles next
  renPc,        \* "loop" | "returned"
  fsDirs,       \* the directories that exist
  fsFiles,      \* the files that exist: [dir, name]
  fsBefore,     \* the directories and files at the start of the run
  renSummary,   \* the lists of createSummary()
  \* ---- createStoredZip on arbitrary entry lists
  storeFiles,   \* the files handed to createStoredZip: [name, data]
  storeBuf,     \* the buffer it returned
  storeOut,     \* what parseZipEntries made of the buffer
  storePc,      \* "input" | "stored" | "parsed"
  \* ---- extractions that share a process
  shFiles,      \* the file each extraction works on
  shLocal,      \* the locals of each extraction: [pc, text, totalPages, via]
  shModule,     \* the module-level variables: [issued, loader, log, installed]
  shWriter,     \* which extraction wrote each module-level variable last
  shCrossed,    \* the module-level variables one extraction read after the
                \* other wrote them
  \* ---- extractBinaryLines on arbitrary buffers
  salBuf,       \* the buffer handed to extractBinaryLines
  salLines,     \* the lines it returned
  salPc,        \* "input" | "done"
  \* ---- generateFilename of the OpenAI-compatible client
  provJsonMode, \* options.jsonMode: "true", "false" or "unset"
  provPrompt,   \* the prompt handed to generateFilename
  provRequests, \* the requests sent, in order: [prompt, format]
  provResponses,\* the responses they met, in order
  provOutcome,  \* what generateFilename returned or threw
  provPc,       \* "idle" | "call" | "retry" | "done"
  \* ---- buildPrompt under a character budget
  prmSegments,  \* the context segments buildPrompt collected
  prmBudget,    \* options.promptCharBudget, NULL when not a finite number
  prmMessage,   \* the user message of the prompt
  prmPc,        \* "idle" | "build" | "done"
  \* ---- extractors of the zipped office formats
  offEntries,   \* the mapping parseZipEntries returned: [name, data] in order
  offKind,      \* which extractor was run on it
  offText,      \* the text the extractor returned
  offPc,        \* "idle" | "parsed" | "done"
  \* ---- processFile: confirmation before the rename
  cfOptions,    \* forceChange, isTTY, acceptOnEnter, dryRun, movePlan
  cfEarly,      \* how the steps before the confirmation ended
  cfAsked,      \* whether the question was put to the terminal
  cfAnswer,     \* the line the user typed, <<>> when nothing was asked
  cfConfirmed,  \* "none" | "yes" | "no": what promptForConfirmation returned
  cfFile,       \* where the file is: [dir, name]
  cfOutcomes,   \* the types handed to recordOutcome, in order
  cfPc          \* "idle" | "start" | "confirm" | "apply" | "move" | "done"

docxVars == <<lines, docxBuf, docxEntries, docxText, docxPc>>
zipVars == <<zipDesc, zipBuf, zipOut, zipPc>>
legacyVars ==
  <<legEnv, legPc, legLog, tempDir, tempDocx, cleaned, legLines, legResult>>
pdfVars ==
  <<pdfEnv, pdfPc, pdfLog, rawText, totalPages, processedPages, usedPoppler,
    pdfOut, warningIssued, warnings, rasterDirs, pagesRead, renderCalls,
    ocrRun>>

confirmVars ==
  <<cfOptions, cfEarly, cfAsked, cfAnswer, cfConfirmed, cfFile, cfOutcomes,
    cfPc>>

officeVars == <<offEntries, offKind, offText, offPc>>

promptVars == <<prmSegments, prmBudget, prmMessage, prmPc>>

providerVars ==
  <<provJsonMode, provPrompt, provRequests, provResponses, provOutcome, provPc>>

salvageVars == <<salBuf, salLines, salPc>>

sharedVars == <<shFiles, shLocal, shModule, shWriter, shCrossed>>

storeVars == <<storeFiles, storeBuf, storeOut, storePc>>

renVars ==
  <<renOptions, renFiles, renNext, renPc, fsDirs, fsFiles, fsBefore,
    renSummary>>

----------------------------------------------------------------------------
(* Generic helpers *)

Min(S) == CHOOSE x \in S : \A y \in S : x <= y

Max(S) == CHOOSE x \in S : \A y \in S : x >= y

\* Buffer.concat / Array.prototype.join('') on a list of sequences
RECURSIVE ConcatRange(_, _, _)
ConcatRange(parts, lo, hi) ==
  IF lo > hi THEN <<>>
  ELSE IF lo = hi THEN parts[lo]
  ELSE ConcatRange(parts, lo, (lo + hi) \div 2)
       \o ConcatRange(parts, (lo + hi) \div 2 + 1, hi)

Concat(parts) == ConcatRange(parts, 1, Len(parts))

\* Array.prototype.join(sep)
RECURSIVE Join(_, _)
Join(parts, sep) ==
  IF parts = <<>> THEN <<>>
  ELSE IF Len(parts) = 1 THEN parts[1]
  ELSE parts[1] \o sep \o Join(Tail(parts), sep)

\* s.slice(from, to) with 0-based, end-exclusive, clamped bounds
Slice(s, from, to) ==
  SubSeq(s, Min({from, Len(s)}) + 1, Min({to, Len(s)}))

\* pat occurs in s at 1-based position i
MatchAt(s, i, pat) ==
  /\ i >= 1
  /\ i + Len(pat) - 1 <= Len(s)
  /\ SubSeq(s, i, i + Len(pat) - 1) = pat

\* String.prototype.indexOf(pat, from): 1-based, 0 when absent
IndexOf(s, pat, from) ==
  LET hits == {i \in from..(Len(s) - Len(pat) + 1) : MatchAt(s, i, pat)}
  IN IF hits = {} THEN 0 ELSE Min(hits)

\* String.prototype.replace(/pat/g, rep) for a literal pattern
RECURSIVE ReplaceAll(_, _, _)
ReplaceAll(s, pat, rep) ==
  LET at == IndexOf(s, pat, 1) IN
  IF at = 0 THEN s
  ELSE SubSeq(s, 1, at - 1) \o rep
       \o ReplaceAll(SubSeq(s, at + Len(pat), Len(s)), pat, rep)

StartsWith(s, pat) == MatchAt(s, 1, pat)

EndsWith(s, pat) == MatchAt(s, Len(s) - Len(pat) + 1, pat)

\* lexicographic order on code-unit sequences (the default Array.prototype.sort)
RECURSIVE SeqLess(_, _)
SeqLess(a, b) ==
  IF b = <<>> THEN FALSE
  ELSE IF a = <<>> THEN TRUE
  ELSE IF Head(a) # Head(b) THEN Head(a) < Head(b)
  ELSE SeqLess(Tail(a), Tail(b))

RECURSIVE SortInsert(_, _)
SortInsert(sorted, x) ==
  IF sorted = <<>> THEN <<x>>
  ELSE IF SeqLess(x, Head(sorted)) THEN <<x>> \o sorted
  ELSE <<Head(sorted)>> \o SortInsert(Tail(sorted), x)

RECURSIVE SortSeqs(_)
SortSeqs(xs) ==
  IF xs = <<>> THEN <<>> ELSE SortInsert(SortSeqs(Tail(xs)), Head(xs))

----------------------------------------------------------------------------
(* Byte-level integer access (Buffer.readUInt16LE / writeUInt32LE ...) *)

writeUInt16LE(v) == <<v % 256, (v \div 256) % 256>>

writeUInt32LE(v) ==
  <<v % 256, (v \div 256) % 256, (v \div 65536) % 256, (v \div 16777216) % 256>>

\* Node throws ERR_OUT_OF_RANGE when offset + width exceeds the buffer
CanRead(buffer, offset, width) == offset >= 0 /\ offset <= Len(buffer) - width

readUInt16LE(buffer, offset) == buffer[offset + 1] + 256 * buffer[offset + 2]

\* Values of 2^31 and more are all read as UINT32_HIGH: such a value equals no
\* signature and lies beyond every buffer of the model.
UINT32_HIGH == 2147483647

readUInt32LE(buffer, offset) ==
  IF buffer[offset + 4] >= 128 THEN UINT32_HIGH
  ELSE buffer[offset + 1] + 256 * buffer[offset + 2]
       + 65536 * buffer[offset + 3] + 16777216 * buffer[offset + 4]

\* Buffer.from(str, 'utf8') for code points below U+10000
Utf8EncodeChar(cp) ==
  IF cp < 128 THEN <<cp>>
  ELSE IF cp < 2048 THEN <<192 + (cp \div 64), 128 + (cp % 64)>>
  ELSE <<224 + (cp \div 4096), 128 + ((cp \div 64) % 64), 128 + (cp % 64)>>

Utf8Encode(str) == Concat([i \in 1..Len(str) |-> Utf8EncodeChar(str[i])])

IsCont(b) == b >= 128 /\ b < 192

\* buffer.toString('utf8'), one character at a time from position i up to
\* position hi: malformed sequences decode to U+FFFD
RECURSIVE Utf8DecodeFrom(_, _, _, _)
Utf8DecodeFrom(bytes, i, hi, acc) ==
  IF i > hi THEN acc
  ELSE LET b == bytes[i] IN
    IF b < 128 THEN Utf8DecodeFrom(bytes, i + 1, hi, Append(acc, b))
    ELSE IF b >= 194 /\ b < 224 /\ i + 1 <= hi /\ IsCont(bytes[i + 1])
      THEN Utf8DecodeFrom(bytes, i + 2, hi,
             Append(acc, (b - 192) * 64 + (bytes[i + 1] - 128)))
    ELSE IF b >= 224 /\ b < 240 /\ i + 2 <= hi
            /\ IsCont(bytes[i + 1]) /\ IsCont(bytes[i + 2])
            /\ (b - 224) * 4096 + (bytes[i + 1] - 128) * 64 >= 2048
      THEN Utf8DecodeFrom(bytes, i + 3, hi,
             Append(acc, (b - 224) * 4096 + (bytes[i + 1] - 128) * 64
                         + (bytes[i + 2] - 128)))
    ELSE Utf8DecodeFrom(bytes, i + 1, hi, Append(acc, 65533))

\* The decoder above applied to bytes[lo..hi], the range cut in two at a byte
\* that is no continuation byte (the decoder always starts a character
\* there), which keeps the evaluation shallow on long buffers.
RECURSIVE Utf8DecodeRange(_, _, _)
Utf8DecodeRange(bytes, lo, hi) ==
  LET cuts == {m \in (lo + 8)..hi : ~IsCont(bytes[m]) /\ m >= (lo + hi) \div 2}
  IN IF hi - lo < 16 \/ cuts = {} THEN Utf8DecodeFrom(bytes, lo, hi, <<>>)
     ELSE Utf8DecodeRange(bytes, lo, Min(cuts) - 1)
          \o Utf8DecodeRange(bytes, Min(cuts), hi)

Utf8Decode(bytes) == Utf8DecodeRange(bytes, 1, Len(bytes))

----------------------------------------------------------------------------
(* Archive Container Writer: createStoredZip (binaryOfficeConversion.js) *)

EOCD_SIGNATURE == 101010256              \* 0x06054b50

CENTRAL_DIRECTORY_SIGNATURE == 33639248  \* 0x02014b50

LOCAL_FILE_HEADER_SIGNATURE == 67324752  \* 0x04034b50

\* toDosDateTime(new Date()): the clock is read once per archive; no reader of
\* the repository looks at the two fields, the model fixes 2024-01-01 00:00:00.
dosDate == 22561

dosTime == 0

\* crc32(buffer) as the four little-endian bytes written at offset 14 / 16.
\* No reader of the repository verifies the checksum: the model keeps a
\* 32-bit digest of the data (byte sum and length) in its place.
RECURSIVE ByteSum(_, _, _)
ByteSum(data, lo, hi) ==
  IF lo > hi THEN 0
  ELSE IF lo = hi THEN data[lo]
  ELSE ByteSum(data, lo, (lo + hi) \div 2) + ByteSum(data, (lo + hi) \div 2 + 1, hi)

crc32(data) ==
  writeUInt16LE(ByteSum(data, 1, Len(data)) % 65536)
  \o writeUInt16LE(Len(data) % 65536)

localHeader(crc, size, nameLength) ==
  writeUInt32LE(LOCAL_FILE_HEADER_SIGNATURE) \o writeUInt16LE(20)
  \o writeUInt16LE(0) \o writeUInt16LE(0)
  \o writeUInt16LE(dosTime) \o writeUInt16LE(dosDate)
  \o crc \o writeUInt32LE(size) \o writeUInt32LE(size)
  \o writeUInt16LE(nameLength) \o writeUInt16LE(0)

centralHeader(crc, size, nameLength, offset) ==
  writeUInt32LE(CENTRAL_DIRECTORY_SIGNATURE) \o writeUInt16LE(788)
  \o writeUInt16LE(20) \o writeUInt16LE(0) \o writeUInt16LE(0)
  \o writeUInt16LE(dosTime) \o writeUInt16LE(dosDate)
  \o crc \o writeUInt32LE(size) \o writeUInt32LE(size)
  \o writeUInt16LE(nameLength) \o writeUInt16LE(0) \o writeUInt16LE(0)
  \o writeUInt16LE(0) \o writeUInt16LE(0) \o writeUInt32LE(0)
  \o writeUInt32LE(offset)

\* an offset that stays where it is
OffsetStuck(offset, localEntry) == offset

\* offset += localEntry.length
AdvanceOffset(offset, localEntry) == offset + Len(localEntry)

\* the for-loop of createStoredZip over files[i..]; a file is [name, data],
\* both already byte sequences
RECURSIVE ZipLoop(_, _, _, _, _)
ZipLoop(files, i, offset, localParts, centralParts) ==
  IF i > Len(files)
  THEN [localParts |-> localParts, centralParts |-> centralParts]
  ELSE LET nameBuffer == files[i].name
           dataBuffer == files[i].data
           crc == crc32(dataBuffer)
           localEntry == localHeader(crc, Len(dataBuffer), Len(nameBuffer))
                         \o nameBuffer \o dataBuffer
           centralEntry == centralHeader(crc, Len(dataBuffer), Len(nameBuffer), offset)
                           \o nameBuffer
       IN ZipLoop(files, i + 1, AdvanceOffset(offset, localEntry),
                  Append(localParts, localEntry),
                  Append(centralParts, centralEntry))

eocdRecord(count, centralLength, localLength) ==
  writeUInt32LE(EOCD_SIGNATURE) \o writeUInt16LE(0) \o writeUInt16LE(0)
  \o writeUInt16LE(count) \o writeUInt16LE(count)
  \o writeUInt32LE(centralLength) \o writeUInt32LE(localLength)
  \o writeUInt16LE(0)

createStoredZip(files) ==
  LET parts == ZipLoop(files, 1, 0, <<>>, <<>>)
      localSection == Concat(parts.localParts)
      centralSection == Concat(parts.centralParts)
  IN localSection \o centralSection
     \o eocdRecord(Len(files), Len(centralSection), Len(localSection))

----------------------------------------------------------------------------
(* Archive Container Reader: parseZipEntries (processFile.js) *)

\* the backward scan for (let i = buffer.length - 22; i >= 0; i--)
RECURSIVE ScanEocd(_, _)
ScanEocd(buffer, i) ==
  IF i < 0 THEN -1
  ELSE IF readUInt32LE(buffer, i) = EOCD_SIGNATURE THEN i
  ELSE ScanEocd(buffer, i - 1)

\* a scan that starts one byte too early and so never looks at the last
\* 22 bytes of the buffer
FindEocdStartsEarly(buffer) == ScanEocd(buffer, Len(buffer) - 23)

FindEocd(buffer) == ScanEocd(buffer, Len(buffer) - 22)

\* zlib.inflateRawSync, restricted to what the model's archives hold: one final
\* stored block (01, LEN, ~LEN, LEN bytes); anything else makes zlib throw.
InflateOk(fileData) ==
  /\ Len(fileData) >= 5
  /\ fileData[1] = 1
  /\ readUInt16LE(fileData, 1) + readUInt16LE(fileData, 3) = 65535
  /\ Len(fileData) = 5 + readUInt16LE(fileData, 1)

inflateRawSync(fileData) == SubSeq(fileData, 6, Len(fileData))

\* a set that leaves the value of an existing key as it is
MapSetKeepsFirst(entries, fileName, data) ==
  IF \E k \in 1..Len(entries) : entries[k].name = fileName
  THEN entries
  ELSE Append(entries, [name |-> fileName, data |-> data])

\* Map.prototype.set: a new key is appended, an existing key keeps its place
\* and takes the new value
MapSet(entries, fileName, data) ==
  IF \E k \in 1..Len(entries) : entries[k].name = fileName
  THEN [k \in 1..Len(entries) |->
          IF entries[k].name = fileName
          THEN [name |-> fileName, data |-> data] ELSE entries[k]]
  ELSE Append(entries, [name |-> fileName, data |-> data])

Thrown(kind) == [kind |-> kind, entries |-> <<>>]

\* a walk that does not test the local file header signature
LocalHeaderNotTested(buffer, localHeaderOffset) == TRUE

\* the local-header test of one central-directory record
LocalHeaderMatches(buffer, localHeaderOffset) ==
  readUInt32LE(buffer, localHeaderOffset) = LOCAL_FILE_HEADER_SIGNATURE

\* the compression methods parseZipEntries decodes
MethodSupported(compressionMethod) == compressionMethod \in {0, 8}

\* the for-loop over the central directory, from record i at `offset`
RECURSIVE WalkCentralDirectory(_, _, _, _, _)
WalkCentralDirectory(buffer, i, totalEntries, offset, entries) ==
  IF i >= totalEntries THEN [kind |-> "ok", entries |-> entries]
  ELSE IF ~CanRead(buffer, offset, 4) THEN Thrown("RangeError")
  ELSE IF readUInt32LE(buffer, offset) # CENTRAL_DIRECTORY_SIGNATURE
    THEN [kind |-> "ok", entries |-> entries]
  ELSE IF ~CanRead(buffer, offset, 46) THEN Thrown("RangeError")
  ELSE
    LET compressionMethod == readUInt16LE(buffer, offset + 10)
        compressedSize == readUInt32LE(buffer, offset + 20)
        fileNameLength == readUInt16LE(buffer, offset + 28)
        extraFieldLength == readUInt16LE(buffer, offset + 30)
        commentLength == readUInt16LE(buffer, offset + 32)
        localHeaderOffset == readUInt32LE(buffer, offset + 42)
        nameStart == offset + 46
        fileName == Slice(buffer, nameStart, nameStart + fileNameLength)
        nextOffset == nameStart + fileNameLength + extraFieldLength + commentLength
    IN
    IF ~CanRead(buffer, localHeaderOffset, 4) THEN Thrown("RangeError")
    ELSE IF ~LocalHeaderMatches(buffer, localHeaderOffset)
      THEN WalkCentralDirectory(buffer, i + 1, totalEntries, nextOffset, entries)
    ELSE IF ~CanRead(buffer, localHeaderOffset + 26, 4) THEN Thrown("RangeError")
    ELSE
      LET localFileNameLength == readUInt16LE(buffer, localHeaderOffset + 26)
          localExtraFieldLength == readUInt16LE(buffer, localHeaderOffset + 28)
          dataStart == localHeaderOffset + 30 + localFileNameLength
                       + localExtraFieldLength
          dataEnd == dataStart + Min({compressedSize, Len(buffer)})
          fileData == Slice(buffer, dataStart, dataEnd)
      IN
      IF ~MethodSupported(compressionMethod) THEN Thrown("UnsupportedCompression")
      ELSE IF compressionMethod = 8 /\ ~InflateOk(fileData) THEN Thrown("InflateError")
      ELSE WalkCentralDirectory(buffer, i + 1, totalEntries, nextOffset,
             MapSet(entries, fileName,
                    IF compressionMethod = 0 THEN fileData
                    ELSE inflateRawSync(fileData)))

parseZipEntries(buffer) ==
  LET eocdOffset == FindEocd(buffer) IN
  IF eocdOffset = -1 THEN Thrown("MalformedArchive")
  ELSE WalkCentralDirectory(buffer, 0, readUInt16LE(buffer, eocdOffset + 10),
                            readUInt32LE(buffer, eocdOffset + 16), <<>>)

----------------------------------------------------------------------------
(* Synthetic DOCX packaging: escapeXml, buildDocxBuffer *)

AMP == 38

LT == 60

GT == 62

QUOT == 34

APOS == 39

SEMI == 59

HASH == 35

NL == 10

TAB == 9

SP == 32

\* the five replacements with '&' replaced last instead of first
escapeXmlAmpersandLast(input) ==
  ReplaceAll(
    ReplaceAll(
      ReplaceAll(
        ReplaceAll(
          ReplaceAll(input, <<LT>>, <<38, 108, 116, 59>>),
          <<GT>>, <<38, 103, 116, 59>>),
        <<QUOT>>, <<38, 113, 117, 111, 116, 59>>),
      <<APOS>>, <<38, 97, 112, 111, 115, 59>>),
    <<AMP>>, <<38, 97, 109, 112, 59>>)

\* the five replacements of escapeXml, applied to the whole string in the
\* order of the source: '&' first
escapeXml(input) ==
  ReplaceAll(
    ReplaceAll(
      ReplaceAll(
        ReplaceAll(
          ReplaceAll(input, <<AMP>>, <<38, 97, 109, 112, 59>>),
          <<LT>>, <<38, 108, 116, 59>>),
        <<GT>>, <<38, 103, 116, 59>>),
      <<QUOT>>, <<38, 113, 117, 111, 116, 59>>),
    <<APOS>>, <<38, 97, 112, 111, 115, 59>>)

\* documentXmlHead: the UTF-8 bytes of '<?xml version="1.0" encoding="UTF-8" standalone="yes"?> <w:document...'
documentXmlHead ==
  <<60, 63, 120, 109, 108, 32, 118, 101, 114, 115, 105, 111, 110, 61, 34, 49, 46, 48, 34, 32, 101, 110, 99, 111,
     100, 105, 110, 103, 61, 34, 85, 84, 70, 45, 56, 34, 32, 115, 116, 97, 110, 100, 97, 108, 111, 110, 101, 61,
     34, 121, 101, 115, 34, 63, 62, 10, 60, 119, 58, 100, 111, 99, 117, 109, 101, 110, 116, 32, 120, 109, 108, 110,
     115, 58, 119, 61, 34, 104, 116, 116, 112, 58, 47, 47, 115, 99, 104, 101, 109, 97, 115, 46, 111, 112, 101, 110,
     120, 109, 108, 102, 111, 114, 109, 97, 116, 115, 46, 111, 114, 103, 47, 119, 111, 114, 100, 112, 114, 111, 99, 101,
     115, 115, 105, 110, 103, 109, 108, 47, 50, 48, 48, 54, 47, 109, 97, 105, 110, 34, 32, 120, 109, 108, 110, 115,
     58, 114, 61, 34, 104, 116, 116, 112, 58, 47, 47, 115, 99, 104, 101, 109, 97, 115, 46, 111, 112, 101, 110, 120,
     109, 108, 102, 111, 114, 109, 97, 116, 115, 46, 111, 114, 103, 47, 111, 102, 102, 105, 99, 101, 68, 111, 99, 117,
     109, 101, 110, 116, 47, 50, 48, 48, 54, 47, 114, 101, 108, 97, 116, 105, 111, 110, 115, 104, 105, 112, 115, 34,
     62, 10, 32, 32, 60, 119, 58, 98, 111, 100, 121, 62>>

\* documentXmlTail: the UTF-8 bytes of '<w:sectPr><w:pgSz w:w="12240" w:h="15840"/><w:pgMar w:top="1440" w:...'
documentXmlTail ==
  <<60, 119, 58, 115, 101, 99, 116, 80, 114, 62, 60, 119, 58, 112, 103, 83, 122, 32, 119, 58, 119, 61, 34, 49,
     50, 50, 52, 48, 34, 32, 119, 58, 104, 61, 34, 49, 53, 56, 52, 48, 34, 47, 62, 60, 119, 58, 112, 103,
     77, 97, 114, 32, 119, 58, 116, 111, 112, 61, 34, 49, 52, 52, 48, 34, 32, 119, 58, 114, 105, 103, 104, 116,
     61, 34, 49, 52, 52, 48, 34, 32, 119, 58, 98, 111, 116, 116, 111, 109, 61, 34, 49, 52, 52, 48, 34, 32,
     119, 58, 108, 101, 102, 116, 61, 34, 49, 52, 52, 48, 34, 32, 119, 58, 104, 101, 97, 100, 101, 114, 61, 34,
     55, 50, 48, 34, 32, 119, 58, 102, 111, 111, 116, 101, 114, 61, 34, 55, 50, 48, 34, 32, 119, 58, 103, 117,
     116, 116, 101, 114, 61, 34, 48, 34, 47, 62, 60, 47, 119, 58, 115, 101, 99, 116, 80, 114, 62, 60, 47, 119,
     58, 98, 111, 100, 121, 62, 10, 60, 47, 119, 58, 100, 111, 99, 117, 109, 101, 110, 116, 62>>

\* contentTypesXml: the UTF-8 bytes of '<?xml version="1.0" encoding="UTF-8" standalone="yes"?> <Types xmln...'
contentTypesXml ==
  <<60, 63, 120, 109, 108, 32, 118, 101, 114, 115, 105, 111, 110, 61, 34, 49, 46, 48, 34, 32, 101, 110, 99, 111,
     100, 105, 110, 103, 61, 34, 85, 84, 70, 45, 56, 34, 32, 115, 116, 97, 110, 100, 97, 108, 111, 110, 101, 61,
     34, 121, 101, 115, 34, 63, 62, 10, 60, 84, 121, 112, 101, 115, 32, 120, 109, 108, 110, 115, 61, 34, 104, 116,
     116, 112, 58, 47, 47, 115, 99, 104, 101, 109, 97, 115, 46, 111, 112, 101, 110, 120, 109, 108, 102, 111, 114, 109,
     97, 116, 115, 46, 111, 114, 103, 47, 112, 97, 99, 107, 97, 103, 101, 47, 50, 48, 48, 54, 47, 99, 111, 110,
     116, 101, 110, 116, 45, 116, 121, 112, 101, 115, 34, 62, 10, 32, 32, 60, 68, 101, 102, 97, 117, 108, 116, 32,
     69, 120, 116, 101, 110, 115, 105, 111, 110, 61, 34, 114, 101, 108, 115, 34, 32, 67, 111, 110, 116, 101, 110, 116,
     84, 121, 112, 101, 61, 34, 97, 112, 112, 108, 105, 99, 97, 116, 105, 111, 110, 47, 118, 110, 100, 46, 111, 112,
     101, 110, 120, 109, 108, 102, 111, 114, 109, 97, 116, 115, 45, 112, 97, 99, 107, 97, 103, 101, 46, 114, 101, 108,
     97, 116, 105, 111, 110, 115, 104, 105, 112, 115, 43, 120, 109, 108, 34, 47, 62, 10, 32, 32, 60, 68, 101, 102,
     97, 117, 108, 116, 32, 69, 120, 116, 101, 110, 115, 105, 111, 110, 61, 34, 120, 109, 108, 34, 32, 67, 111, 110,
     116, 101, 110, 116, 84, 121, 112, 101, 61, 34, 97, 112, 112, 108, 105, 99, 97, 116, 105, 111, 110, 47, 120, 109,
     108, 34, 47, 62, 10, 32, 32, 60, 79, 118, 101, 114, 114, 105, 100, 101, 32, 80, 97, 114, 116, 78, 97, 109,
     101, 61, 34, 47, 119, 111, 114, 100, 47, 100, 111, 99, 117, 109, 101, 110, 116, 46, 120, 109, 108, 34, 32, 67,
     111, 110, 116, 101, 110, 116, 84, 121, 112, 101, 61, 34, 97, 112, 112, 108, 105, 99, 97, 116, 105, 111, 110, 47,
     118, 110, 100, 46, 111, 112, 101, 110, 120, 109, 108, 102, 111, 114, 109, 97, 116, 115, 45, 111, 102, 102, 105, 99,
     101, 100, 111, 99, 117, 109, 101, 110, 116, 46, 119, 111, 114, 100, 112, 114, 111, 99, 101, 115, 115, 105, 110, 103,
     109, 108, 46, 100, 111, 99, 117, 109, 101, 110, 116, 46, 109, 97, 105, 110, 43, 120, 109, 108, 34, 47, 62, 10,
     32, 32, 60, 79, 118, 101, 114, 114, 105, 100, 101, 32, 80, 97, 114, 116, 78, 97, 109, 101, 61, 34, 47, 119,
     111, 114, 100, 47, 115, 116, 121, 108, 101, 115, 46, 120, 109, 108, 34, 32, 67, 111, 110, 116, 101, 110, 116, 84,
     121, 112, 101, 61, 34, 97, 112, 112, 108, 105, 99, 97, 116, 105, 111, 110, 47, 118, 110, 100, 46, 111, 112, 101,
     110, 120, 109, 108, 102, 111, 114, 109, 97, 116, 115, 45, 111, 102, 102, 105, 99, 101, 100, 111, 99, 117, 109, 101,
     110, 116, 46, 119, 111, 114, 100, 112, 114, 111, 99, 101, 115, 115, 105, 110, 103, 109, 108, 46, 115, 116, 121, 108,
     101, 115, 43, 120, 109, 108, 34, 47, 62, 10, 60, 47, 84, 121, 112, 101, 115, 62>>

\* packageRelsXml: the UTF-8 bytes of '<?xml version="1.0" encoding="UTF-8" standalone="yes"?> <Relationsh...'
packageRelsXml ==
  <<60, 63, 120, 109, 108, 32, 118, 101, 114, 115, 105, 111, 110, 61, 34, 49, 46, 48, 34, 32, 101, 110, 99, 111,
     100, 105, 110, 103, 61, 34, 85, 84, 70, 45, 56, 34, 32, 115, 116, 97, 110, 100, 97, 108, 111, 110, 101, 61,
     34, 121, 101, 115, 34, 63, 62, 10, 60, 82, 101, 108, 97, 116, 105, 111, 110, 115, 104, 105, 112, 115, 32, 120,
     109, 108, 110, 115, 61, 34, 104, 116, 116, 112, 58, 47, 47, 115, 99, 104, 101, 109, 97, 115, 46, 111, 112, 101,
     110, 120, 109, 108, 102, 111, 114, 109, 97, 116, 115, 46, 111, 114, 103, 47, 112, 97, 99, 107, 97, 103, 101, 47,
     50, 48, 48, 54, 47, 114, 101, 108, 97, 116, 105, 111, 110, 115, 104, 105, 112, 115, 34, 62, 10, 32, 32, 60,
     82, 101, 108, 97, 116, 105, 111, 110, 115, 104, 105, 112, 32, 73, 100, 61, 34, 114, 73, 100, 49, 34, 32, 84,
     121, 112, 101, 61, 34, 104, 116, 116, 112, 58, 47, 47, 115, 99, 104, 101, 109, 97, 115, 46, 111, 112, 101, 110,
     120, 109, 108, 102, 111, 114, 109, 97, 116, 115, 46, 111, 114, 103, 47, 111, 102, 102, 105, 99, 101, 68, 111, 99,
     117, 109, 101, 110, 116, 47, 50, 48, 48, 54, 47, 114, 101, 108, 97, 116, 105, 111, 110, 115, 104, 105, 112, 115,
     47, 111, 102, 102, 105, 99, 101, 68, 111, 99, 117, 109, 101, 110, 116, 34, 32, 84, 97, 114, 103, 101, 116, 61,
     34, 119, 111, 114, 100, 47, 100, 111, 99, 117, 109, 101, 110, 116, 46, 120, 109, 108, 34, 47, 62, 10, 60, 47,
     82, 101, 108, 97, 116, 105, 111, 110, 115, 104, 105, 112, 115, 62>>

\* stylesXml: the UTF-8 bytes of '<?xml version="1.0" encoding="UTF-8" standalone="yes"?> <w:styles x...'
stylesXml ==
  <<60, 63, 120, 109, 108, 32, 118, 101, 114, 115, 105, 111, 110, 61, 34, 49, 46, 48, 34, 32, 101, 110, 99, 111,
     100, 105, 110, 103, 61, 34, 85, 84, 70, 45, 56, 34, 32, 115, 116, 97, 110, 100, 97, 108, 111, 110, 101, 61,
     34, 121, 101, 115, 34, 63, 62, 10, 60, 119, 58, 115, 116, 121, 108, 101, 115, 32, 120, 109, 108, 110, 115, 58,
     119, 61, 34, 104, 116, 116, 112, 58, 47, 47, 115, 99, 104, 101, 109, 97, 115, 46, 111, 112, 101, 110, 120, 109,
     108, 102, 111, 114, 109, 97, 116, 115, 46, 111, 114, 103, 47, 119, 111, 114, 100, 112, 114, 111, 99, 101, 115, 115,
     105, 110, 103, 109, 108, 47, 50, 48, 48, 54, 47, 109, 97, 105, 110, 34, 62, 10, 32, 32, 60, 119, 58, 115,
     116, 121, 108, 101, 32, 119, 58, 116, 121, 112, 101, 61, 34, 112, 97, 114, 97, 103, 114, 97, 112, 104, 34, 32,
     119, 58, 100, 101, 102, 97, 117, 108, 116, 61, 34, 49, 34, 32, 119, 58, 115, 116, 121, 108, 101, 73, 100, 61,
     34, 78, 111, 114, 109, 97, 108, 34, 62, 60, 119, 58, 110, 97, 109, 101, 32, 119, 58, 118, 97, 108, 61, 34,
     78, 111, 114, 109, 97, 108, 34, 47, 62, 60, 119, 58, 113, 70, 111, 114, 109, 97, 116, 47, 62, 60, 47, 119,
     58, 115, 116, 121, 108, 101, 62, 10, 60, 47, 119, 58, 115, 116, 121, 108, 101, 115, 62>>

\* paragraphOpen: the UTF-8 bytes of '<w:p><w:r><w:t xml:space="preserve">'
paragraphOpen ==
  <<60, 119, 58, 112, 62, 60, 119, 58, 114, 62, 60, 119, 58, 116, 32, 120, 109, 108, 58, 115, 112, 97, 99, 101,
     61, 34, 112, 114, 101, 115, 101, 114, 118, 101, 34, 62>>

\* paragraphClose: the UTF-8 bytes of '</w:t></w:r></w:p>'
paragraphClose ==
  <<60, 47, 119, 58, 116, 62, 60, 47, 119, 58, 114, 62, 60, 47, 119, 58, 112, 62>>

\* placeholderLine: the UTF-8 bytes of 'Converted legacy Office document'
placeholderLine ==
  <<67, 111, 110, 118, 101, 114, 116, 101, 100, 32, 108, 101, 103, 97, 99, 121, 32, 79, 102, 102, 105, 99, 101, 32,
     100, 111, 99, 117, 109, 101, 110, 116>>

\* nameContentTypes: the UTF-8 bytes of '[Content_Types].xml'
nameContentTypes ==
  <<91, 67, 111, 110, 116, 101, 110, 116, 95, 84, 121, 112, 101, 115, 93, 46, 120, 109, 108>>

\* nameRels: the UTF-8 bytes of '_rels/.rels'
nameRels ==
  <<95, 114, 101, 108, 115, 47, 46, 114, 101, 108, 115>>

\* nameDocument: the UTF-8 bytes of 'word/document.xml'
nameDocument ==
  <<119, 111, 114, 100, 47, 100, 111, 99, 117, 109, 101, 110, 116, 46, 120, 109, 108>>

\* nameStyles: the UTF-8 bytes of 'word/styles.xml'
nameStyles ==
  <<119, 111, 114, 100, 47, 115, 116, 121, 108, 101, 115, 46, 120, 109, 108>>

\* lines.length > 0 ? lines : ['Converted legacy Office document']
docxParagraphs(salvaged) ==
  IF Len(salvaged) > 0 THEN salvaged ELSE <<placeholderLine>>

bodyContent(paragraphs) ==
  Concat([i \in 1..Len(paragraphs) |->
            paragraphOpen \o escapeXml(paragraphs[i]) \o paragraphClose])

documentXml(salvaged) ==
  documentXmlHead \o bodyContent(docxParagraphs(salvaged)) \o documentXmlTail

buildDocxBuffer(salvaged) ==
  createStoredZip(<<
    [name |-> nameContentTypes, data |-> contentTypesXml],
    [name |-> nameRels, data |-> packageRelsXml],
    [name |-> nameDocument, data |-> Utf8Encode(documentXml(salvaged))],
    [name |-> nameStyles, data |-> stylesXml] >>)

----------------------------------------------------------------------------
(* Word extractor: decodeXmlEntities, extractDocxText (processFile.js) *)

IsDigit(c) == c >= 48 /\ c <= 57

IsHexDigit(c) == IsDigit(c) \/ (c >= 65 /\ c <= 70) \/ (c >= 97 /\ c <= 102)

DigitValue(c) ==
  IF IsDigit(c) THEN c - 48 ELSE IF c >= 97 THEN c - 87 ELSE c - 55

\* parseInt(digits, radix)
RECURSIVE ParseInt(_, _, _)
ParseInt(digits, radix, acc) ==
  IF digits = <<>> THEN acc
  ELSE ParseInt(Tail(digits), radix, acc * radix + DigitValue(Head(digits)))

\* the end of the digit run that starts at position i
RECURSIVE DigitRunEnd(_, _, _)
DigitRunEnd(s, i, hex) ==
  IF i <= Len(s) /\ (IF hex THEN IsHexDigit(s[i]) ELSE IsDigit(s[i]))
  THEN DigitRunEnd(s, i + 1, hex) ELSE i

\* .replace(/&#x([0-9a-fA-F]+);/g, ...) when hex, .replace(/&#([0-9]+);/g, ...)
\* otherwise: every numeric reference becomes its code point
RECURSIVE DecodeNumeric(_, _, _)
DecodeNumeric(s, i, hex) ==
  LET prefix == IF hex THEN <<AMP, HASH, 120>> ELSE <<AMP, HASH>>
      from == i + Len(prefix)
      to == DigitRunEnd(s, from, hex)
  IN
  IF i > Len(s) THEN <<>>
  ELSE IF MatchAt(s, i, prefix) /\ to > from /\ to <= Len(s) /\ s[to] = SEMI
    THEN <<ParseInt(SubSeq(s, from, to - 1), IF hex THEN 16 ELSE 10, 0)>>
         \o DecodeNumeric(s, to + 1, hex)
  ELSE <<s[i]>> \o DecodeNumeric(s, i + 1, hex)

\* the five named replacements, in the order of the source: &amp; comes last
decodeNamedEntities(s) ==
  ReplaceAll(
    ReplaceAll(
      ReplaceAll(
        ReplaceAll(
          ReplaceAll(s, <<38, 108, 116, 59>>, <<LT>>),
          <<38, 103, 116, 59>>, <<GT>>),
        <<38, 113, 117, 111, 116, 59>>, <<QUOT>>),
      <<38, 97, 112, 111, 115, 59>>, <<APOS>>),
    <<38, 97, 109, 112, 59>>, <<AMP>>)

decodeXmlEntities(input) ==
  IF input = <<>> THEN <<>>
  ELSE decodeNamedEntities(DecodeNumeric(DecodeNumeric(input, 1, TRUE), 1, FALSE))

\* the characters matched by \s and removed by String.prototype.trim
WhiteSpace ==
  {9, 10, 11, 12, 13, 32, 160, 5760, 8232, 8233, 8239, 8287, 12288, 65279}
  \cup (8192..8202)

RECURSIVE TrimStart(_)
TrimStart(s) ==
  IF s # <<>> /\ Head(s) \in WhiteSpace THEN TrimStart(Tail(s)) ELSE s

RECURSIVE TrimEnd(_)
TrimEnd(s) ==
  IF s # <<>> /\ s[Len(s)] \in WhiteSpace
  THEN TrimEnd(SubSeq(s, 1, Len(s) - 1)) ELSE s

Trim(s) == TrimEnd(TrimStart(s))

\* String.prototype.split(sep) for a one-character separator
RECURSIVE SplitOn(_, _)
SplitOn(s, sep) ==
  LET at == IndexOf(s, <<sep>>, 1) IN
  IF at = 0 THEN <<s>>
  ELSE <<SubSeq(s, 1, at - 1)>> \o SplitOn(SubSeq(s, at + 1, Len(s)), sep)

\* line.replace(/[\t ]+/g, ' ')
RECURSIVE CollapseBlanks(_)
CollapseBlanks(s) ==
  IF s = <<>> THEN <<>>
  ELSE IF Head(s) \in {TAB, SP}
    THEN IF Len(s) > 1 /\ s[2] \in {TAB, SP}
         THEN CollapseBlanks(Tail(s))
         ELSE <<SP>> \o CollapseBlanks(Tail(s))
  ELSE <<Head(s)>> \o CollapseBlanks(Tail(s))

\* .split('\n').map(collapse + trim).filter(Boolean).join('\n')
NormalizeLines(text) ==
  Join(SelectSeq([k \in 1..Len(SplitOn(text, NL)) |->
                    Trim(CollapseBlanks(SplitOn(text, NL)[k]))],
                 LAMBDA l : l # <<>>),
       <<NL>>)

tagT == <<60, 119, 58, 116>>   \* <w:t

tagTClose == <<60, 47, 119, 58, 116, 62>>   \* </w:t>

tagTab == <<60, 119, 58, 116, 97, 98>>   \* <w:tab

tagBr == <<60, 119, 58, 98, 114>>   \* <w:br

tagCr == <<60, 119, 58, 99, 114>>   \* <w:cr

tagPBreak == <<60, 119, 58, 112, 66, 114, 101, 97, 107>>   \* <w:pBreak

tagTbl == <<60, 119, 58, 116, 98, 108, 62>>   \* <w:tbl>

tagTblClose == <<60, 47, 119, 58, 116, 98, 108, 62>>   \* </w:tbl>

tagP == <<60, 119, 58, 112>>   \* <w:p

tagPClose == <<60, 47, 119, 58, 112, 62>>   \* </w:p>

prefixWord == <<119, 111, 114, 100, 47>>   \* word/

suffixXml == <<46, 120, 109, 108>>   \* .xml

\* the alternatives of /document|header|footer|footnotes|endnotes/i
partWords ==
  {<<100, 111, 99, 117, 109, 101, 110, 116>>,
   <<104, 101, 97, 100, 101, 114>>,
   <<102, 111, 111, 116, 101, 114>>,
   <<102, 111, 111, 116, 110, 111, 116, 101, 115>>,
   <<101, 110, 100, 110, 111, 116, 101, 115>>}

ToLower(c) == IF c >= 65 /\ c <= 90 THEN c + 32 ELSE c

LowerCase(s) == [i \in 1..Len(s) |-> ToLower(s[i])]

\* the filter of extractDocxText on an entry name
IsRelevantPart(file) ==
  /\ StartsWith(file, prefixWord)
  /\ EndsWith(file, suffixXml)
  /\ \E w \in partWords : IndexOf(LowerCase(file), w, 1) # 0

\* a match of <prefix[^>]*\/> at position p: the position of its '>', else 0
SelfClosingEnd(xml, p, prefix) ==
  LET gt == IndexOf(xml, <<GT>>, p + Len(prefix)) IN
  IF MatchAt(xml, p, prefix) /\ gt # 0 /\ gt - 1 >= p + Len(prefix)
     /\ xml[gt - 1] = 47
  THEN gt ELSE 0

\* (<w:tab[^>]*\/>)+ : the end of the longest run of tab elements from p
RECURSIVE TabRunEnd(_, _)
TabRunEnd(xml, p) ==
  LET e == SelfClosingEnd(xml, p, tagTab) IN
  IF e = 0 THEN 0
  ELSE IF TabRunEnd(xml, e + 1) # 0 THEN TabRunEnd(xml, e + 1) ELSE e

\* tokensRegex tried at position p, its alternatives in order: the position
\* of the last character of the match, 0 when no alternative matches
TokenEndAt(xml, p) ==
  LET gt == IndexOf(xml, <<GT>>, p + Len(tagT))
      close == IF gt = 0 THEN 0 ELSE IndexOf(xml, tagTClose, gt + 1)
      tblClose == IndexOf(xml, tagTblClose, p + Len(tagTbl))
  IN
  IF MatchAt(xml, p, tagT) /\ close # 0 THEN close + Len(tagTClose) - 1
  ELSE IF TabRunEnd(xml, p) # 0 THEN TabRunEnd(xml, p)
  ELSE IF SelfClosingEnd(xml, p, tagBr) # 0 THEN SelfClosingEnd(xml, p, tagBr)
  ELSE IF SelfClosingEnd(xml, p, tagCr) # 0 THEN SelfClosingEnd(xml, p, tagCr)
  ELSE IF SelfClosingEnd(xml, p, tagPBreak) # 0
    THEN SelfClosingEnd(xml, p, tagPBreak)
  ELSE IF MatchAt(xml, p, tagTbl) /\ tblClose # 0
    THEN tblClose + Len(tagTblClose) - 1
  ELSE 0

\* what one token contributes: every token that starts with '<w:t' (text, and
\* also tab and table tokens) takes the first branch of the source
TokenText(token) ==
  IF StartsWith(token, tagT)
  THEN LET gt == IndexOf(token, <<GT>>, Len(tagT) + 1)
           opened == IF gt = 0 THEN token ELSE SubSeq(token, gt + 1, Len(token))
           close == IndexOf(opened, tagTClose, 1)
           text == IF close = 0 THEN opened
                   ELSE SubSeq(opened, 1, close - 1)
                        \o SubSeq(opened, close + Len(tagTClose), Len(opened))
       IN decodeXmlEntities(text)
  ELSE <<NL>>

\* the while-loop of extractParagraphText: tokens.join('') from position p on
RECURSIVE CollectTokens(_, _)
CollectTokens(xml, p) ==
  LET lt == IndexOf(xml, <<LT>>, p) IN
  IF lt = 0 THEN <<>>
  ELSE LET e == TokenEndAt(xml, lt) IN
    IF e = 0 THEN CollectTokens(xml, lt + 1)
    ELSE TokenText(SubSeq(xml, lt, e)) \o CollectTokens(xml, e + 1)

extractParagraphText(paragraphXml) ==
  NormalizeLines(CollectTokens(paragraphXml, 1))

\* the while-loop over paragraphRegex /<w:p[\s\S]*?<\/w:p>/g from position p:
\* the non-empty paragraph texts, in document order
RECURSIVE CollectParagraphs(_, _)
CollectParagraphs(xml, p) ==
  LET open == IndexOf(xml, tagP, p)
      close == IF open = 0 THEN 0 ELSE IndexOf(xml, tagPClose, open + Len(tagP))
  IN
  IF close = 0 THEN <<>>
  ELSE LET paragraphText ==
             extractParagraphText(SubSeq(xml, open, close + Len(tagPClose) - 1))
       IN (IF paragraphText # <<>> THEN <<paragraphText>> ELSE <<>>)
          \o CollectParagraphs(xml, close + Len(tagPClose))

\* Array.from(entries.keys()).filter(...).sort()
relevantFiles(entries) ==
  SortSeqs(SelectSeq([k \in 1..Len(entries) |-> entries[k].name], IsRelevantPart))

MapGet(entries, fileName) ==
  (CHOOSE k \in 1..Len(entries) : entries[k].name = fileName)

\* paragraphs.join('\n\n')
JoinParagraphs(paragraphs) == Join(paragraphs, <<NL, NL>>)

extractDocxText(entries) ==
  LET files == relevantFiles(entries)
      perFile == [k \in 1..Len(files) |->
                    CollectParagraphs(
                      Utf8Decode(entries[MapGet(entries, files[k])].data), 1)]
  IN Trim(JoinParagraphs(Concat(perFile)))

----------------------------------------------------------------------------
(* Writer -> reader -> Word extractor on salvaged lines *)

\* how many salvaged lines a list holds at most
MaxLines == 2

\* Salvaged lines as extractBinaryLines delivers them: non-empty, trimmed,
\* inner whitespace collapsed to single spaces.  The pool holds plain text,
\* each of the five XML special characters, text that reads like an entity or
\* a numeric reference, a non-ASCII letter and text that reads like markup.
LinePool ==
  {
   <<97, 98, 99>>,                     \* abc
   <<97, 38, 98>>,                     \* a&b
   <<97, 60, 98>>,                     \* a<b
   <<97, 62, 98>>,                     \* a>b
   <<97, 34, 98>>,                     \* a"b
   <<97, 39, 98>>,                     \* a'b
   <<38, 108, 116, 59>>,               \* &lt;
   <<38, 97, 109, 112, 59>>,           \* &amp;
   <<38, 35, 54, 48, 59>>,             \* &#60;
   <<38, 35, 120, 51, 99, 59>>,        \* &#x3c;
   <<97, 32, 98>>,                     \* a b
   <<99, 97, 102, 233>>,               \* café
   <<60, 47, 119, 58, 112, 62>>        \* </w:p>
  }

\* the lists of pairwise distinct lines of length 0..MaxLines
RECURSIVE ListsOfLength(_)
ListsOfLength(n) ==
  IF n = 0 THEN {<<>>}
  ELSE {Append(l, x) : l \in ListsOfLength(n - 1), x \in LinePool}

Distinct(l) == \A i, j \in 1..Len(l) : i # j => l[i] # l[j]

LineLists ==
  UNION {{l \in ListsOfLength(n) : Distinct(l)} : n \in 0..MaxLines}

----------------------------------------------------------------------------
(* Archives handed to parseZipEntries *)

\* how many central-directory records an archive of the model holds at most
MaxEntries == 2

\* how many bytes of archive comment may follow the EOCD record
MaxComment == 1

\* the size of an EOCD record without comment
EOCD_LENGTH == 22

EntryNames == {<<97>>, <<98>>}          \* "a", "b"

\* the uncompressed content of the entry called name
ContentOf(name) == name \o <<33>>

\* one final stored block of raw deflate data holding content
DeflateStored(content) ==
  <<1>> \o writeUInt16LE(Len(content)) \o writeUInt16LE(65535 - Len(content))
  \o content

\* An entry of an archive description: its name, the compression method its
\* central-directory record declares, and what lies at the local-header offset
\* the record stores: "ok" a local file header, "stale" bytes that are no
\* local file header, "beyond" nothing (the offset is the buffer's length).
EntryDescs ==
  [name : EntryNames, method : {0, 8, 99}, local : {"ok", "stale", "beyond"}]

Payload(e) ==
  IF e.method = 8 THEN DeflateStored(ContentOf(e.name)) ELSE ContentOf(e.name)

\* the bytes of entry e in the local section
LocalImage(e) ==
  LET header == localHeader(crc32(ContentOf(e.name)), Len(Payload(e)), Len(e.name))
  IN (IF e.local = "ok" THEN header
      ELSE writeUInt32LE(0) \o SubSeq(header, 5, Len(header)))
     \o e.name \o Payload(e)

\* the central-directory record of entry e; badSignature spoils its signature
CentralImage(e, offset, badSignature) ==
  LET header == centralHeader(crc32(ContentOf(e.name)), Len(Payload(e)),
                              Len(e.name), offset)
      method == SubSeq(header, 1, 10) \o writeUInt16LE(e.method)
                \o SubSeq(header, 13, Len(header))
  IN (IF badSignature THEN writeUInt32LE(0) \o SubSeq(method, 5, Len(method))
      ELSE method) \o e.name

RECURSIVE ImageLoop(_, _, _, _, _, _)
ImageLoop(d, i, offset, beyond, localParts, centralParts) ==
  IF i > Len(d.entries)
  THEN [localParts |-> localParts, centralParts |-> centralParts]
  ELSE LET e == d.entries[i]
           localEntry == LocalImage(e)
           centralEntry ==
             CentralImage(e, IF e.local = "beyond" THEN beyond ELSE offset,
                          d.brokenAt = i)
       IN ImageLoop(d, i + 1, offset + Len(localEntry), beyond,
                    Append(localParts, localEntry),
                    Append(centralParts, centralEntry))

ImageWith(d, beyond) ==
  LET parts == ImageLoop(d, 1, 0, beyond, <<>>, <<>>)
      localSection == Concat(parts.localParts)
      centralSection == Concat(parts.centralParts)
      eocd == eocdRecord(Len(d.entries), Len(centralSection), Len(localSection))
      whole == localSection \o centralSection
               \o SubSeq(eocd, 1, 20) \o writeUInt16LE(d.comment)
               \o [k \in 1..d.comment |-> 46]
  IN SubSeq(whole, 1, Len(whole) - d.cut)

\* the byte stream of archive description d
ArchiveImage(d) == ImageWith(d, Len(ImageWith(d, 0)))

RECURSIVE EntryLists(_)
EntryLists(n) ==
  IF n = 0 THEN {<<>>}
  ELSE {Append(l, e) : l \in EntryLists(n - 1), e \in EntryDescs}

\* Archive descriptions: up to MaxEntries records, at most one of them with a
\* spoilt central-directory signature (brokenAt, 0 for none), a comment after
\* the EOCD, and, for the archive without entries, the last `cut` bytes missing.
ArchiveDescs ==
  UNION {{[entries |-> l, brokenAt |-> b, comment |-> c, cut |-> 0] :
            l \in EntryLists(n), b \in 0..n, c \in 0..MaxComment}
         : n \in 0..MaxEntries}
  \cup {[entries |-> <<>>, brokenAt |-> 0, comment |-> 0, cut |-> k] :
          k \in 1..EOCD_LENGTH}

NoZipOut == [kind |-> "none", entries |-> <<>>]

NoDesc == [entries |-> <<>>, brokenAt |-> 0, comment |-> 0, cut |-> 0]

----------------------------------------------------------------------------
(* Legacy binary salvage: collectSegments, extractBinaryLines *)

MIN_LINE_LENGTH == 3

\* buffer.toString('latin1'): every byte is the code unit of its value
Latin1Decode(buffer) == [k \in 1..Len(buffer) |-> buffer[k]]

\* buffer.toString('utf16le'): two bytes a code unit, low byte first; a
\* trailing odd byte is dropped
Utf16leDecode(buffer) ==
  [k \in 1..(Len(buffer) \div 2) |-> buffer[2 * k - 1] + 256 * buffer[2 * k]]

\* the character classes of the two match expressions:
\* "ascii" is [\x20-\x7E\s], "unicode" is [\u0020-\uD7FF\uE000-\uFFFD\s]
InClass(cls, c) ==
  \/ c \in WhiteSpace
  \/ IF cls = "ascii" THEN c >= 32 /\ c <= 126
     ELSE (c >= 32 /\ c <= 55295) \/ (c >= 57344 /\ c <= 65533)

\* text.match(/[class]+/g): the maximal runs of class characters, of
\* whatever length
RECURSIVE MatchRunsOfAnyLength(_, _, _)
MatchRunsOfAnyLength(text, cls, i) ==
  IF i > Len(text) THEN <<>>
  ELSE IF ~InClass(cls, text[i]) THEN MatchRunsOfAnyLength(text, cls, i + 1)
  ELSE LET stops == {j \in i..Len(text) : ~InClass(cls, text[j])}
           end == IF stops = {} THEN Len(text) ELSE Min(stops) - 1
       IN <<SubSeq(text, i, end)>> \o MatchRunsOfAnyLength(text, cls, end + 1)

\* text.match(/[class]{4,}/g): the maximal runs of class characters that are
\* at least four characters long, left to right
RECURSIVE MatchRuns(_, _, _)
MatchRuns(text, cls, i) ==
  IF i > Len(text) THEN <<>>
  ELSE IF ~InClass(cls, text[i]) THEN MatchRuns(text, cls, i + 1)
  ELSE LET stops == {j \in i..Len(text) : ~InClass(cls, text[j])}
           end == IF stops = {} THEN Len(text) ELSE Min(stops) - 1
       IN (IF end - i + 1 >= 4 THEN <<SubSeq(text, i, end)>> ELSE <<>>)
          \o MatchRuns(text, cls, end + 1)

\* match.replace(stripRegex, ' ')
StripOutside(match, cls) ==
  [k \in 1..Len(match) |-> IF InClass(cls, match[k]) THEN match[k] ELSE SP]

CR == 13

\* .replace(/\r\n?/g, '\n')
RECURSIVE NormalizeNewlines(_)
NormalizeNewlines(s) ==
  IF s = <<>> THEN <<>>
  ELSE IF Head(s) = CR
    THEN IF Len(s) > 1 /\ s[2] = NL
         THEN <<NL>> \o NormalizeNewlines(SubSeq(s, 3, Len(s)))
         ELSE <<NL>> \o NormalizeNewlines(Tail(s))
  ELSE <<Head(s)>> \o NormalizeNewlines(Tail(s))

\* line.replace(/\s+/g, ' ')
RECURSIVE CollapseWhiteSpace(_)
CollapseWhiteSpace(s) ==
  IF s = <<>> THEN <<>>
  ELSE IF Head(s) \in WhiteSpace
    THEN IF Len(s) > 1 /\ s[2] \in WhiteSpace
         THEN CollapseWhiteSpace(Tail(s))
         ELSE <<SP>> \o CollapseWhiteSpace(Tail(s))
  ELSE <<Head(s)>> \o CollapseWhiteSpace(Tail(s))

\* the lines one match contributes: split at newlines, whitespace collapsed,
\* trimmed, empty lines dropped
CleanedLines(match, cls) ==
  LET pieces == SplitOn(NormalizeNewlines(StripOutside(match, cls)), NL)
  IN SelectSeq([k \in 1..Len(pieces) |-> Trim(CollapseWhiteSpace(pieces[k]))],
               LAMBDA l : l # <<>>)

collectSegments(text, cls) ==
  IF text = <<>> THEN <<>>
  ELSE LET matches == MatchRuns(text, cls, 1)
       IN Concat([k \in 1..Len(matches) |-> CleanedLines(matches[k], cls)])

\* pushLines: candidates shorter than MIN_LINE_LENGTH and candidates seen
\* before are skipped (seen holds exactly the lines pushed so far)
RECURSIVE pushLines(_, _)
pushLines(pushed, candidates) ==
  IF candidates = <<>> THEN pushed
  ELSE LET candidate == Head(candidates)
           skip == \/ Len(candidate) < MIN_LINE_LENGTH
                   \/ \E k \in 1..Len(pushed) : pushed[k] = candidate
       IN pushLines(IF skip THEN pushed ELSE Append(pushed, candidate),
                    Tail(candidates))

extractBinaryLines(buffer) ==
  LET fromLatin1 == pushLines(<<>>, collectSegments(Latin1Decode(buffer), "ascii"))
      fromUtf16 == pushLines(fromLatin1,
                             collectSegments(Utf16leDecode(buffer), "unicode"))
  IN pushLines(fromUtf16, collectSegments(Utf8Decode(buffer), "unicode"))

----------------------------------------------------------------------------
(* Conversion orchestrator: convertBinaryOfficeToDocx (binaryOfficeConversion.js)
   and the legacy branch of readFileContent (processFile.js) *)

SLASH == 47

DOT == 46

\* path.basename(p): what follows the last separator
basename(p) ==
  LET seps == {i \in 1..Len(p) : p[i] = SLASH}
  IN IF seps = {} THEN p ELSE SubSeq(p, Max(seps) + 1, Len(p))

\* path.extname(p): from the last dot of the base name on, empty when the base
\* name has no dot or only a leading one
extname(p) ==
  LET base == basename(p)
      dots == {i \in 2..Len(base) : base[i] = DOT}
  IN IF dots = {} THEN <<>> ELSE SubSeq(base, Max(dots), Len(base))

wordExtensions == {<<46, 100, 111, 99>>, <<46, 100, 111, 116>>}                 \* .doc .dot

presentationExtensions ==
  {<<46, 112, 112, 116>>, <<46, 112, 112, 115>>, <<46, 112, 111, 116>>}  \* .ppt .pps .pot

spreadsheetExtensions == {<<46, 120, 108, 115>>, <<46, 120, 108, 116>>}        \* .xls .xlt

\* a chain that treats every legacy extension as a Word document
AllKindsWord(ext) == "word"

\* BINARY_OFFICE_KINDS[ext]
BINARY_OFFICE_KINDS(ext) ==
  IF ext \in wordExtensions THEN "word"
  ELSE IF ext \in presentationExtensions THEN "presentation"
  ELSE IF ext \in spreadsheetExtensions THEN "spreadsheet"
  ELSE "undefined"

\* the keys of BINARY_OFFICE_WARNINGS
BINARY_OFFICE_WARNINGS ==
  wordExtensions \cup presentationExtensions \cup spreadsheetExtensions

noContentPrefix ==   \* "No textual content could be extracted from "
  <<78, 111, 32, 116, 101, 120, 116, 117, 97, 108, 32, 99, 111, 110,
    116, 101, 110, 116, 32, 99, 111, 117, 108, 100, 32, 98, 101, 32,
    101, 120, 116, 114, 97, 99, 116, 101, 100, 32, 102, 114, 111, 109,
    32>>

noContentSuffix ==   \* ". The file may require manual conversion."
  <<46, 32, 84, 104, 101, 32, 102, 105, 108, 101, 32, 109, 97, 121, 32,
    114, 101, 113, 117, 105, 114, 101, 32, 109, 97, 110, 117, 97, 108,
    32, 99, 111, 110, 118, 101, 114, 115, 105, 111, 110, 46>>

\* a salvage that never counts as empty
NeverEmpty(salvaged) == FALSE

\* lines.length === 0
SalvageIsEmpty(salvaged) == Len(salvaged) = 0

----------------------------------------------------------------------------
(* PDF pipeline: extractPdf and its collaborators (extractors/pdfExtractor.js) *)

\* null and undefined where a number is expected: not finite
NULL == -1

COLON == 58

\* Number.isFinite(x) && x > 0 ? Math.floor(x) : 0
PositiveOrZero(x) == IF x # NULL /\ x > 0 THEN x ELSE 0

explicitLimit(env) == PositiveOrZero(env.pageLimit)

thresholdBytes(env) == PositiveOrZero(env.largeFileThresholdBytes)

autoLimit(env) == PositiveOrZero(env.largeFilePageLimit)

\* the size-triggered limit applies
AutoLimited(env) ==
  /\ explicitLimit(env) = 0
  /\ thresholdBytes(env) # 0
  /\ autoLimit(env) # 0
  /\ env.sizeBytes # NULL
  /\ env.sizeBytes >= thresholdBytes(env)

AppliedPageLimit(env) ==
  IF AutoLimited(env) THEN autoLimit(env) ELSE explicitLimit(env)

DEFAULT_POPPLER_THRESHOLD_BYTES == 20971520    \* 20 * 1024 * 1024

\* a test that looks at the page limit alone
attemptUnderLimitOnly(env) == AppliedPageLimit(env) > 0

shouldAttemptPoppler(env) ==
  \/ AppliedPageLimit(env) > 0
  \/ /\ env.sizeBytes # NULL
     /\ env.sizeBytes >= (IF thresholdBytes(env) # 0 THEN thresholdBytes(env)
                          ELSE DEFAULT_POPPLER_THRESHOLD_BYTES)

\* the pages a tool bounded by limit works on (all of them without a limit)
PagesWithin(doc, limit) ==
  IF limit > 0 THEN Min({Max({1, limit}), Len(doc)}) ELSE Len(doc)

\* runPdftotext: the trimmed standard output of `pdftotext -q -nopgbrk [-f 1
\* -l limit]`, the text of each page followed by a newline; the empty string
\* stands for null as well (the tool is missing or failed)
runPdftotext(doc, limit, tool) ==
  IF tool # "ok" THEN <<>>
  ELSE Trim(Concat([p \in 1..PagesWithin(doc, limit) |-> doc[p] \o <<NL>>]))

\* the decimal digits of a natural number
RECURSIVE Digits(_)
Digits(n) ==
  IF n < 10 THEN <<48 + n>> ELSE Digits(n \div 10) \o <<48 + (n % 10)>>

\* "Producer: x" and a newline
producerLine == <<80, 114, 111, 100, 117, 99, 101, 114, 58, 32, 120, 10>>

pagesKey == <<80, 97, 103, 101, 115>>                   \* Pages

\* runPdfinfo: the standard output of `pdfinfo -isodates`; the empty string
\* stands for null as well (the tool is missing or failed).  "noPages" is an
\* output without a Pages line.
runPdfinfo(doc, tool) ==
  IF tool = "ok"
    THEN producerLine \o pagesKey \o <<COLON, SP, SP>> \o Digits(Len(doc))
         \o <<NL>>
  ELSE IF tool = "noPages" THEN producerLine
  ELSE <<>>

\* parsePdfinfoOutput, then info[key]: the trimmed value of the last line
\* whose trimmed key is key; the empty string when there is none
InfoValue(output, key) ==
  LET outLines == SplitOn(ReplaceAll(output, <<CR, NL>>, <<NL>>), NL)
      keyed == {k \in 1..Len(outLines) :
                  /\ IndexOf(outLines[k], <<COLON>>, 1) > 0
                  /\ Trim(SubSeq(outLines[k], 1,
                                 IndexOf(outLines[k], <<COLON>>, 1) - 1)) = key}
  IN IF keyed = {} THEN <<>>
     ELSE LET line == outLines[Max(keyed)]
          IN Trim(SubSeq(line, IndexOf(line, <<COLON>>, 1) + 1, Len(line)))

\* buildMetadataFromPdfinfo: Number.parseInt(info.Pages, 10), null when it is
\* not a number
infoTotalPages(output) ==
  LET value == TrimStart(InfoValue(output, pagesKey))
      to == DigitRunEnd(value, 1, FALSE)
  IN IF to = 1 THEN NULL ELSE ParseInt(SubSeq(value, 1, to - 1), 10, 0)

\* pdfParse(buffer, parseOptions): numpages is the page count of the document,
\* numrender the number of pages rendered (all of them without max), text the
\* text of each rendered page after two newlines
pdfParse(doc, max) ==
  [text |-> Concat([p \in 1..PagesWithin(doc, max) |-> <<NL, NL>> \o doc[p]]),
   numpages |-> Len(doc),
   numrender |-> PagesWithin(doc, max)]

ocrPageText == <<120, 121>>                  \* what tesseract reads on a page

\* the four flags tesseractWarningIssued, pdftoppmWarningIssued,
\* pdftotextWarningIssued and pdfinfoWarningIssued of a fresh process
NoWarningIssued ==
  [tesseract |-> FALSE, pdftoppm |-> FALSE, pdftotext |-> FALSE,
   pdfinfo |-> FALSE]

\* One call of logger.warn: the tool it names, the message ("notFound" for
\* "<tool> CLI not found. Install ...", "failed" for "<tool> ... failed for
\* <path>: <error.message>", "noRenders" for "Vision mode enabled but no page
\* renders were generated") and the code of the error behind it.
Warned(tool, message, code) ==
  [tool |-> tool, message |-> message, code |-> code]

\* What the collaborators share and leave behind: the warning flags, the
\* calls of logger.warn and the rasterization directories on disk.  A logger
\* is passed to every collaborator.
Process(issued, log, dirs) == [issued |-> issued, log |-> log, dirs |-> dirs]

\* if (!<tool>WarningIssued && logger) { logger.warn(...); <tool>WarningIssued
\* = true }
warnOnce(ps, tool) ==
  IF ~ps.issued[tool]
  THEN [ps EXCEPT !.issued[tool] = TRUE,
                  !.log = Append(@, Warned(tool, "notFound", "ENOENT"))]
  ELSE ps

\* logger.warn(`<tool> ... failed for <path>: ${error.message}`)
warnFailed(ps, tool, code) ==
  [ps EXCEPT !.log = Append(@, Warned(tool, "failed", code))]

\* the catch block of runPdftotext and of runPdfinfo
catchTool(ps, tool, behaviour) ==
  IF behaviour = "missing" THEN warnOnce(ps, tool)
  ELSE IF behaviour = "fails" THEN warnFailed(ps, tool, "other")
  ELSE ps

\* tempDir = await fs.mkdtemp(...)
mkdtemp(ps, dir) == [ps EXCEPT !.dirs = @ \cup {dir}]

\* a cleanup that leaves the directory where it is
cleanupForgotten(ps, dir) == ps

\* cleanupTempDir: fs.rm(dirPath, { recursive: true, force: true })
cleanupTempDir(ps, dir) == [ps EXCEPT !.dirs = @ \ {dir}]

\* a loop that pushes the text of every page, empty or not
RECURSIVE ocrLoopKeepsBlanks(_, _, _, _)
ocrLoopKeepsBlanks(images, tesseract, k, acc) ==
  IF k > images THEN acc
  ELSE ocrLoopKeepsBlanks(images, tesseract, k + 1,
         IF tesseract[k] = "reads"
           THEN [acc EXCEPT !.pageTexts = Append(@, ocrPageText)]
         ELSE [acc EXCEPT !.pageTexts = Append(@, <<>>)])

\* The loop of runTesseractOcr over the page images: runTesseractOnImage on
\* each, a non-empty text is pushed, and every error of a page, the ENOENT of
\* a missing tesseract included, is caught in the loop and warned about.
\* acc is [pageTexts, ps].
RECURSIVE ocrLoop(_, _, _, _)
ocrLoop(images, tesseract, k, acc) ==
  IF k > images THEN acc
  ELSE ocrLoop(images, tesseract, k + 1,
         IF tesseract[k] = "reads"
           THEN [acc EXCEPT !.pageTexts = Append(@, ocrPageText)]
         ELSE IF tesseract[k] = "blank" THEN acc
         ELSE [acc EXCEPT !.ps =
                 warnFailed(@, "tesseract",
                            IF tesseract[k] = "missing" THEN "ENOENT"
                            ELSE "other")])

\* runTesseractOcr on a PDF: pdftoppm rasterizes the file, without a page
\* range, into a fresh directory; the page images are read one by one and the
\* non-empty page texts joined by a blank line; the directory is removed in
\* the finally block; the errors of pdftoppm reach the outer catch block.
\* The empty text stands for null; rasterized is the number of pages pdftoppm
\* was run on, images the number of page images it left, pages the pages field
\* of the metadata.
runTesseractOcr(doc, pdftoppm, tesseract, ps) ==
  LET made == mkdtemp(ps, "ocr")
      none == [text |-> <<>>, pages |-> NULL, rasterized |-> 0, images |-> 0,
               ps |-> ps]
  IN IF pdftoppm = "missing"
       THEN [none EXCEPT !.ps = warnOnce(cleanupTempDir(made, "ocr"),
                                         "pdftoppm")]
     ELSE IF pdftoppm = "fails"
       THEN [none EXCEPT !.ps = warnFailed(cleanupTempDir(made, "ocr"),
                                           "pdftoppm", "other")]
     ELSE IF pdftoppm = "noImages"
       THEN [none EXCEPT !.ps = cleanupTempDir(made, "ocr"),
                         !.rasterized = Len(doc)]
     ELSE LET read == ocrLoop(Len(doc), tesseract, 1,
                              [pageTexts |-> <<>>, ps |-> made])
          IN [text |-> Join(read.pageTexts, <<NL, NL>>),
              pages |-> IF read.pageTexts # <<>> THEN Len(read.pageTexts)
                        ELSE NULL,
              rasterized |-> Len(doc),
              images |-> Len(doc),
              ps |-> cleanupTempDir(read.ps, "ocr")]

\* renderPdfPageImages: pdftoppm renders the pages, the first limit of them
\* under a positive limit, into a fresh directory that the finally block
\* removes; images holds the page numbers of the renders, in order
renderPdfPageImages(doc, limit, pdftoppm, ps) ==
  LET made == mkdtemp(ps, "vision")
  IN IF pdftoppm = "missing"
       THEN [images |-> <<>>, rendered |-> 0,
             ps |-> cleanupTempDir(warnOnce(made, "pdftoppm"), "vision")]
     ELSE IF pdftoppm = "fails"
       THEN [images |-> <<>>, rendered |-> 0,
             ps |-> cleanupTempDir(warnFailed(made, "pdftoppm", "other"),
                                   "vision")]
     ELSE IF pdftoppm = "noImages"
       THEN [images |-> <<>>, rendered |-> PagesWithin(doc, limit),
             ps |-> cleanupTempDir(made, "vision")]
     ELSE [images |-> [k \in 1..PagesWithin(doc, limit) |-> k],
           rendered |-> PagesWithin(doc, limit),
           ps |-> cleanupTempDir(made, "vision")]

\* a limit that takes the vision page limit alone
visionLimitAlone(env, processed) == PositiveOrZero(env.visionPageLimit)

\* the value extractPdf hands to renderPdfPageImages as limit: the smallest
\* positive one of visionPageLimit, appliedPageLimit and processedPages, 0
\* when none is positive
resolvedVisionLimit(env, processed) ==
  LET positiveLimits ==
        {v \in {env.visionPageLimit, AppliedPageLimit(env), processed} :
           v # NULL /\ v > 0}
  IN IF positiveLimits # {} THEN Min(positiveLimits) ELSE 0

\* a test that takes every text for empty
AlwaysEmpty(text) == TRUE

\* !rawText
NoText(text) == text = <<>>

DEFAULT_CHAR_BUDGET == 20000

\* budget: Math.max(0, Math.floor(textCharBudget)) when finite, else 20000
CharBudget(textCharBudget) ==
  IF textCharBudget # NULL THEN Max({0, textCharBudget})
  ELSE DEFAULT_CHAR_BUDGET

\* a cut that returns the raw text whole
KeepWhole(raw, budget) == raw

\* budget > 0 ? rawText.slice(0, budget) : rawText
CutToBudget(raw, budget) == IF budget > 0 THEN Slice(raw, 0, budget) ELSE raw

----------------------------------------------------------------------------
(* The rename loop: runRenamer, createSubjectManager, ensureUniqueName *)

HYPHEN == 45

\* fs.mkdir(dirPath, { recursive: true }): the directory and its ancestors; a
\* directory is the sequence of the names on its path
mkdirRecursive(dirs, dirPath) ==
  dirs \cup {SubSeq(dirPath, 1, n) : n \in 1..Len(dirPath)}

\* createSubjectManager.resolveDestination: subject is the normalized subject,
\* "" when there is none.  [found, directory, subject, dirs]: found is FALSE
\* for the null result, dirs are the directories after ensureDirectory.
resolveDestination(baseDirectory, moveUnknownSubjects, subject, dirs) ==
  IF subject = ""
  THEN IF ~moveUnknownSubjects
       THEN [found |-> FALSE, directory |-> baseDirectory, subject |-> "",
             dirs |-> dirs]
       ELSE [found |-> TRUE, directory |-> Append(baseDirectory, "Unknown"),
             subject |-> "Unknown",
             dirs |-> mkdirRecursive(dirs, Append(baseDirectory, "Unknown"))]
  ELSE [found |-> TRUE, directory |-> Append(baseDirectory, subject),
        subject |-> subject,
        dirs |-> mkdirRecursive(dirs, Append(baseDirectory, subject))]

\* path.join(directory, name)
FileAt(directory, name) == [dir |-> directory, name |-> name]

\* a loop that tests the first candidate only
uniqueLoopOnce(targetDir, name, ext, candidate, counter, files) ==
  IF FileAt(targetDir, candidate) \in files
  THEN name \o <<HYPHEN>> \o Digits(counter) \o ext
  ELSE candidate

\* the loop of ensureUniqueName: while (existsSync(path.join(targetDir,
\* candidate))) { candidate = `${name}-${counter}${ext}`; counter += 1 }
RECURSIVE uniqueLoop(_, _, _, _, _, _)
uniqueLoop(targetDir, name, ext, candidate, counter, files) ==
  IF FileAt(targetDir, candidate) \in files
  THEN uniqueLoop(targetDir, name, ext,
                  name \o <<HYPHEN>> \o Digits(counter) \o ext, counter + 1,
                  files)
  ELSE candidate

\* ensureUniqueName(targetDir, filename, existsSync), existsSync telling
\* whether the path is one of files
ensureUniqueName(targetDir, filename, files) ==
  LET ext == extname(filename)
      name == SubSeq(filename, 1, Len(filename) - Len(ext))
  IN uniqueLoop(targetDir, name, ext, filename, 1, files)

\* createSummary(): the four lists of a run
NoSummary == [renamed |-> <<>>, moved |-> <<>>, skipped |-> <<>>, errors |-> <<>>]

\* addRename (entry) { renamed.push(entry) }
addRename(summary, entry) == [summary EXCEPT !.renamed = Append(@, entry)]

\* addMove (entry) { moved.push(entry) }
addMove(summary, entry) == [summary EXCEPT !.moved = Append(@, entry)]

\* addSkip (entry) { skipped.push(entry) }
addSkip(summary, entry) == [summary EXCEPT !.skipped = Append(@, entry)]

\* an addError that keeps no record of the entry
addErrorForgotten(summary, entry) == summary

\* addError (entry) { errors.push(entry) }
addError(summary, entry) == [summary EXCEPT !.errors = Append(@, entry)]

----------------------------------------------------------------------------
(* Extractions that share a process: the module-level variables of
   pdfExtractor.js and binaryOfficeConversion.js *)

\* a loader that hands the module to its first caller only
loadOnlyOnce(loader, installed) ==
  IF loader = "undefined" THEN (IF installed THEN "module" ELSE "null")
  ELSE "null"

\* loadDoc2Docx: the value of doc2docxLoader after the call, which is what
\* the call resolves to: the first call imports doc2docx ("module", or "null"
\* when the import fails), later calls find the cached promise
loadDoc2Docx(loader, installed) ==
  IF loader = "undefined" THEN (IF installed THEN "module" ELSE "null")
  ELSE loader

\* extractSharedStrings: the table is a fresh array filled from the
\* xl/sharedStrings.xml of the entries at hand
extractSharedStrings(entries) == entries.sharedStrings

\* buildSheetNameMap: a fresh map from the workbook of the entries at hand;
\* the display name of the sheet, empty when the workbook names none
buildSheetNameMap(entries) == entries.sheetName

sheetLabel == <<83, 104, 101, 101, 116, 58, 32>>          \* "Sheet: "

sheetFallbackName == <<115, 49>>                          \* "s1"

\* extractXlsxText on a workbook of one sheet with one row of shared-string
\* cells: a cell whose index has no (non-empty) string is empty, a row of
\* empty cells is dropped, a sheet without text is left out
extractXlsxText(entries) ==
  LET sharedStrings == extractSharedStrings(entries)
      sheetNames == buildSheetNameMap(entries)
      rowCells == [k \in 1..Len(entries.cells) |->
                     IF entries.cells[k] + 1 \in 1..Len(sharedStrings)
                     THEN Trim(sharedStrings[entries.cells[k] + 1])
                     ELSE <<>>]
      sheetText == IF \E k \in 1..Len(rowCells) : rowCells[k] # <<>>
                   THEN Trim(Join(rowCells, <<TAB>>)) ELSE <<>>
      displayName == IF sheetNames # <<>> THEN sheetNames
                     ELSE sheetFallbackName
  IN IF sheetText # <<>>
     THEN Trim(sheetLabel \o displayName \o <<NL>> \o sheetText)
     ELSE <<>>

\* the module-level variables of a fresh process; installed tells whether
\* doc2docx can be imported
FreshModule(installed) ==
  [issued |-> NoWarningIssued, loader |-> "undefined", log |-> <<>>,
   installed |-> installed]

\* what one extraction holds in its own locals before its first step
FirstLocal(file) ==
  [pc |-> IF file.kind = "pdf" THEN "fast"
          ELSE IF file.kind = "doc" THEN "load" ELSE "sheets",
   text |-> <<>>, totalPages |-> NULL, via |-> "none"]

\* One step of the extraction of file, from one await to the next, on its
\* locals and the module-level variables mod: [local, mod, reads, writes],
\* reads and writes being the module-level variables the step read and
\* wrote.  A PDF goes through pdftotext and pdfinfo, the embedded parser and
\* the OCR fallback of extractPdf (a large file without page limit, a parser
\* that does not throw); a legacy Word file through loadDoc2Docx and the
\* module conversion or the salvage of convertBinaryOfficeToDocx; a workbook
\* through extractXlsxText.
ExtractionStep(file, local, mod) ==
  LET ps == Process(mod.issued, mod.log, {})
      same == [local |-> local, mod |-> mod, reads |-> {}, writes |-> {}]
      after(p) == [mod EXCEPT !.issued = p.issued, !.log = p.log]
      flagsWritten(p) == {t \in DOMAIN mod.issued : p.issued[t] # mod.issued[t]}
  IN IF local.pc = "fast"
     THEN LET popplerText == runPdftotext(file.doc, 0, file.pdftotext)
              afterText == catchTool(ps, "pdftotext", file.pdftotext)
              pdfinfoOutput == runPdfinfo(file.doc, file.pdfinfo)
              afterInfo == catchTool(afterText, "pdfinfo", file.pdfinfo)
          IN IF popplerText # <<>>
             THEN [local |-> [local EXCEPT
                      !.pc = "done", !.text = Trim(popplerText),
                      !.via = "pdftotext",
                      !.totalPages = IF pdfinfoOutput # <<>>
                                     THEN infoTotalPages(pdfinfoOutput)
                                     ELSE NULL],
                   mod |-> after(afterInfo),
                   reads |-> {t \in {"pdftotext", "pdfinfo"} :
                                file[t] = "missing"},
                   writes |-> flagsWritten(afterInfo)]
             ELSE [local |-> [local EXCEPT !.pc = "parse"],
                   mod |-> after(afterText),
                   reads |-> {t \in {"pdftotext"} : file[t] = "missing"},
                   writes |-> flagsWritten(afterText)]
     ELSE IF local.pc = "parse"
     THEN LET data == pdfParse(file.doc, 0)
          IN [same EXCEPT
                !.local = [local EXCEPT
                   !.pc = IF Trim(data.text) # <<>> THEN "done" ELSE "ocr",
                   !.text = Trim(data.text), !.via = "pdfjs",
                   !.totalPages = data.numpages]]
     ELSE IF local.pc = "ocr"
     THEN LET ocrResult ==
                runTesseractOcr(file.doc, file.pdftoppm,
                                [p \in 1..Len(file.doc) |-> file.tesseract],
                                ps)
          IN [local |-> [local EXCEPT
                   !.pc = "done",
                   !.text = ocrResult.text,
                   !.via = IF ocrResult.text # <<>> THEN "tesseract"
                           ELSE local.via],
              mod |-> after(ocrResult.ps),
              reads |-> {t \in {"pdftoppm"} : file[t] = "missing"},
              writes |-> flagsWritten(ocrResult.ps)]
     ELSE IF local.pc = "load"
     THEN LET loaded == loadDoc2Docx(mod.loader, mod.installed)
          IN [local |-> [local EXCEPT !.pc = "convert", !.via = loaded],
              mod |-> [mod EXCEPT !.loader = loaded],
              reads |-> {"doc2docxLoader"},
              writes |-> IF mod.loader = "undefined" THEN {"doc2docxLoader"}
                         ELSE {}]
     ELSE IF local.pc = "convert"
     THEN [same EXCEPT
             !.local = IF local.via = "module"
                       THEN [local EXCEPT !.pc = "done",
                                          !.text = file.converted]
                       ELSE [local EXCEPT
                               !.pc = "done", !.via = "salvage",
                               !.text = Join(extractBinaryLines(file.source),
                                             <<NL, NL>>)]]
     ELSE IF local.pc = "sheets"
     THEN [same EXCEPT
             !.local = [local EXCEPT !.pc = "done", !.via = "xlsx",
                                     !.text = extractXlsxText(file.entries)]]
     ELSE same

\* the locals of the extraction of file when it runs alone in a fresh process
RECURSIVE AloneFrom(_, _, _)
AloneFrom(file, local, mod) ==
  IF local.pc = "done" THEN local
  ELSE LET step == ExtractionStep(file, local, mod)
       IN AloneFrom(file, step.local, step.mod)

ExtractedAlone(file, installed) ==
  AloneFrom(file, FirstLocal(file), FreshModule(installed))

----------------------------------------------------------------------------
(* PDF documents handed to extractPdf *)

\* how many pages a document holds at most
MaxPages == 2

\* the largest --pdf-page-limit
MaxPageLimit == 2

\* the largest character budget
MaxBudget == 3

\* the text of a page: none (a scanned page) or two letters
PagePool == {<<>>, <<97, 98>>}

RECURSIVE DocsOfLength(_)
DocsOfLength(n) ==
  IF n = 0 THEN {<<>>}
  ELSE {Append(d, page) : d \in DocsOfLength(n - 1), page \in PagePool}

Docs == UNION {DocsOfLength(n) : n \in 1..MaxPages}

\* The arguments of one extractPdf call: the document, the options (a vision
\* page limit is given in vision mode only), and the size fs.stat reports
\* (NULL when it fails)
PdfEnvs ==
  {env \in [doc : Docs,
            pageLimit : 0..MaxPageLimit,
            largeFilePageLimit : {0, 1},
            largeFileThresholdBytes : {0, 2048},
            sizeBytes : {NULL, 1024, DEFAULT_POPPLER_THRESHOLD_BYTES},
            textCharBudget : {NULL, 0, MaxBudget},
            visionMode : BOOLEAN,
            visionPageLimit : {NULL} \cup (1..MaxPageLimit)] :
     ~env.visionMode => env.visionPageLimit = NULL}

\* how pdftotext, pdfinfo, pdf-parse and the OCR tools may behave
PdftotextBehaviours == {"ok", "missing", "fails"}

PdfinfoBehaviours == {"ok", "noPages", "missing", "fails"}

PdfParseBehaviours == {"ok", "throws"}

\* pdftoppm renders every page asked for, writes no image, is not installed,
\* or fails
PdftoppmBehaviours == {"ok", "noImages", "missing", "fails"}

\* tesseract is not installed, or on each page image reads text, reads
\* nothing, or fails
TesseractBehaviours(doc) ==
  {[p \in 1..Len(doc) |-> "missing"]}
    \cup [1..Len(doc) -> {"reads", "blank", "fails"}]

NoPdfEnv ==
  [doc |-> <<>>, pageLimit |-> 0, largeFilePageLimit |-> 0,
   largeFileThresholdBytes |-> 0, sizeBytes |-> NULL, textCharBudget |-> NULL,
   visionMode |-> FALSE, visionPageLimit |-> NULL]

NoExtraction ==
  [totalPages |-> NULL, processedPages |-> NULL, pageLimit |-> NULL,
   autoLimited |-> FALSE, truncatedByPageLimit |-> FALSE,
   truncatedByCharacterLimit |-> FALSE, characterLimit |-> NULL,
   extractor |-> "none"]

\* extraction.vision is absent
\* the OCR fallback has not run
NoOcrRun == [images |-> 0, recognized |-> 0, pages |-> NULL]

NoVision == [providedImages |-> 0, limit |-> NULL, truncated |-> FALSE]

NoPdfOut ==
  [kind |-> "none", text |-> <<>>, ocr |-> "none", extraction |-> NoExtraction,
   vision |-> NoVision, images |-> <<>>]

----------------------------------------------------------------------------
(* Legacy files handed to readFileContent *)

\* the directory the legacy files lie in
legacyDir == <<100, SLASH>>                \* d/

\* the names of the legacy files: one per extension, and one whose extension
\* is written in upper case
LegacyNames ==
  {<<114>> \o ext : ext \in BINARY_OFFICE_WARNINGS}
  \cup {<<82, 46, 68, 79, 67>>}            \* R.DOC

LegacyPaths == {legacyDir \o name : name \in LegacyNames}

\* The content of the legacy file: nothing, bytes that are no text, a run too
\* short to match, Latin-1 text, UTF-16LE text, two lines, text with XML
\* special characters, a run that is blank but for two letters, a run that
\* trims to three letters.
SourceBuffers ==
  {<<>>,
   <<1, 2, 3, 0, 255>>,
   <<97, 98>>,                                  \* ab
   <<97, 98, 99, 100>>,                         \* abcd
   <<97, 0, 98, 0, 99, 0, 100, 0>>,           \* abcd in UTF-16LE
   <<97, 98, 99, 100, 13, 10, 101, 102, 103, 104>>,   \* abcd CR LF efgh
   <<97, 38, 98, 60, 99>>,                     \* a&b<c
   <<97, 98, 32, 32, 10>>,                        \* ab, two blanks, LF
   <<97, 98, 99, 32>>}                          \* abc and a blank

\* what a converter leaves at the output path: nothing, a DOCX, or a file
\* that is no archive
ToolOutcomes == {"none", "docx", "garbage"}

ToolFile(outcome) ==
  IF outcome = "docx" THEN buildDocxBuffer(<<<<97, 98, 99>>>>) ELSE <<80, 75>>

\* The environment of one readFileContent call: the path, the convertBinary
\* option, whether doc2docx can be imported, what its module function and its
\* command line leave behind, whether the legacy file can be read, whether the
\* scratch directory can be written to, and the bytes of the legacy file.  A
\* converter leaves nothing behind when it cannot read its input.
LegacyEnvs ==
  {e \in [filePath : LegacyPaths, convertBinary : BOOLEAN, module : BOOLEAN,
          moduleTool : ToolOutcomes, cliTool : ToolOutcomes,
          readable : BOOLEAN, writable : BOOLEAN, source : SourceBuffers] :
     /\ ~e.module => e.moduleTool = "none"
     /\ ~e.readable => (/\ e.moduleTool = "none"
                        /\ e.cliTool = "none"
                        /\ e.source = <<>>)}

NoFile == [exists |-> FALSE, data |-> <<>>]

NoResult == [kind |-> "none", text |-> <<>>, message |-> <<>>]

NoEnv ==
  [filePath |-> <<>>, convertBinary |-> FALSE, module |-> FALSE,
   moduleTool |-> "none", cliTool |-> "none", readable |-> FALSE,
   writable |-> FALSE, source |-> <<>>]

----------------------------------------------------------------------------
(* Folders handed to runRenamer *)

\* how many files discoverFiles returns at most
MaxRenFiles == 2

\* the target directory
rootDirectory == <<"root">>

\* the names of the files in the target directory, and the names the naming
\* steps arrive at: a.txt, b.txt, a-1.txt
RenNames ==
  {<<97, 46, 116, 120, 116>>, <<98, 46, 116, 120, 116>>,
   <<97, 45, 49, 46, 116, 120, 116>>}

\* the subjects the model infers: none, or Acme
RenSubjects == {"", "Acme"}

\* the lists of files discoverFiles may return: distinct files of the target
\* directory
RenFileLists ==
  UNION {{l \in [1..n -> RenNames] : \A i, j \in 1..n : i # j => l[i] # l[j]} :
           n \in 1..MaxRenFiles}

\* the options of a run and the state of the target directory before it: a
\* subject folder may exist already
RenOptions ==
  [dryRun : BOOLEAN, organizeBySubject : BOOLEAN,
   moveUnknownSubjects : BOOLEAN]

NoRenOptions ==
  [dryRun |-> FALSE, organizeBySubject |-> FALSE,
   moveUnknownSubjects |-> FALSE]

NoFolder == [dirs |-> {}, files |-> {}]

----------------------------------------------------------------------------
(* Entry lists handed to createStoredZip *)

\* how many files a list holds at most
MaxStoreFiles == 3

\* names of one and of two bytes, data of no, one and three bytes; a name may
\* occur twice in a list
StoreFilePool ==
  [name : {<<97>>, <<98, 99>>}, data : {<<>>, <<1>>, <<1, 2, 3>>}]

StoreLists == UNION {[1..n -> StoreFilePool] : n \in 0..MaxStoreFiles}

----------------------------------------------------------------------------
(* Files extracted in one process *)

\* the two extractions that share the process
Extractions == {1, 2}

\* one-page PDFs, scanned or with text, and how the tools behave on them
SharedPdfFiles ==
  [kind : {"pdf"}, doc : DocsOfLength(1),
   pdftotext : {"ok", "missing"}, pdfinfo : {"ok", "missing"},
   pdftoppm : {"ok", "missing"}, tesseract : {"reads", "missing"}]

\* legacy Word files: the bytes of the file and the text the doc2docx module
\* makes of it
SharedDocFiles ==
  [kind : {"doc"}, source : {<<97, 98, 99, 100>>},
   converted : {<<65, 66, 67, 68>>}]

\* workbooks: the shared strings, the cells of the row, the name of the sheet
SharedXlsxFiles ==
  [kind : {"xlsx"},
   entries : [sharedStrings : {<<<<120>>, <<121>>>>, <<<<122>>>>},
              cells : {<<0, 1>>}, sheetName : {<<>>, <<78>>}]]

SharedFiles == SharedPdfFiles \cup SharedDocFiles \cup SharedXlsxFiles

\* the module-level variables: the four warning flags, named by their tool,
\* and the cached import
ModuleVariables ==
  {"pdftotext", "pdfinfo", "pdftoppm", "tesseract", "doc2docxLoader"}

NoSharedFile == [kind |-> "none"]

NoLocal == [pc |-> "idle", text |-> <<>>, totalPages |-> NULL, via |-> "none"]

----------------------------------------------------------------------------
(* Buffers handed to extractBinaryLines *)

\* how many segments a buffer is made of at most
MaxSegments == 3

\* the segments: abcd and abcde as single bytes; efgh and abcd as UTF-16LE;
\* a pair of NUL bytes; one control byte; xyz, a run of three; "abc " with a
\* trailing space; e-acute four times as UTF-8
SegmentPool ==
  {<<97, 98, 99, 100>>,
   <<97, 98, 99, 100, 101>>,
   <<101, 0, 102, 0, 103, 0, 104, 0>>,
   <<97, 0, 98, 0, 99, 0, 100, 0>>,
   <<0, 0>>,
   <<1>>,
   <<120, 121, 122>>,
   <<97, 98, 99, 32>>,
   <<195, 169, 195, 169, 195, 169, 195, 169>>}

RECURSIVE BuffersOf(_)
BuffersOf(n) ==
  IF n = 0 THEN {<<>>}
  ELSE {b \o s : b \in BuffersOf(n - 1), s \in SegmentPool}

SalvageBuffers == UNION {BuffersOf(n) : n \in 0..MaxSegments}

----------------------------------------------------------------------------
(* Provider client: sendRequest, generateFilename (openAICompatibleClient.js)
   and parseModelResponse.  Messages are sequences of words. *)

\* the words the retry test looks for in an error message
FORMAT_REJECTED == "'response_format.type' must be 'json_schema' or 'text'"

ThrownError(message) == [kind |-> "error", message |-> message]

ReturnedValue(value) == [kind |-> "result", value |-> value]

\* parseModelResponse(text): a missing or empty reply throws; a reply that
\* holds a JSON object gives that object; any other reply throws with the
\* reply quoted in the message
parseModelResponse(content) ==
  IF content.text = <<>>
    THEN ThrownError(<<"Model returned empty response">>)
  ELSE IF content.json THEN ReturnedValue(content.text)
  ELSE ThrownError(<<"Unable to parse model response as JSON", "Response:">>
              \o content.text)

\* what sendRequest does with the response to its fetch: a rejected fetch
\* throws the error of fetch; a response that is not ok throws with the
\* response text, or the status when the text is empty, in the message; else
\* the content of the first choice is parsed
sendRequest(response) ==
  IF response.kind = "unreachable" THEN ThrownError(<<"fetch failed">>)
  ELSE IF ~response.ok
    THEN ThrownError(<<"Provider request failed", response.status>>
                \o (IF response.text # <<>> THEN response.text
                    ELSE <<"status", response.status>>))
  ELSE parseModelResponse(response.content)

\* /'response_format.type' must be 'json_schema' or 'text'/.test(message)
MentionsFormatRejection(message) ==
  \E k \in 1..Len(message) : message[k] = FORMAT_REJECTED

\* a test that lets every failed request be retried
canRetryAlways(prefersJson, initialFormat, message) == TRUE

\* canRetryAsText
canRetryAsText(prefersJson, initialFormat, message) ==
  /\ prefersJson
  /\ initialFormat = "json_object"
  /\ MentionsFormatRejection(message)

\* useJsonMode = options.jsonMode !== false
useJsonMode(jsonMode) == jsonMode # "false"

\* initialFormat = prefersJson ? 'json_object' : 'text'
initialFormat(prefersJson) == IF prefersJson THEN "json_object" ELSE "text"

----------------------------------------------------------------------------
(* Prompts and provider responses handed to generateFilename *)

\* how many different prompts there are
MaxPrompts == 2

Prompts == 1..MaxPrompts

\* options.jsonMode: true, false or not set
JsonModes == {"true", "false", "unset"}

\* no content: data.choices?.[0]?.message?.content is undefined or ''
NoContent == [json |-> FALSE, text |-> <<>>]

\* the content of the first choice of a response: missing, a JSON object, or
\* text that is no JSON, with and without the words of the format rejection
Contents ==
  {NoContent,
   [json |-> TRUE, text |-> <<"filename">>],
   [json |-> FALSE, text |-> <<"sorry">>],
   [json |-> FALSE, text |-> <<"the server said", FORMAT_REJECTED>>]}

\* the server cannot be reached, answers with an error status, or answers ok
Responses ==
  {[kind |-> "unreachable", ok |-> FALSE, status |-> "none", text |-> <<>>,
    content |-> NoContent]}
  \cup {[kind |-> "http", ok |-> FALSE, status |-> s, text |-> t,
         content |-> NoContent] :
          s \in {"400", "500"},
          t \in {<<>>, <<"overloaded">>, <<"error:", FORMAT_REJECTED>>}}
  \cup {[kind |-> "http", ok |-> TRUE, status |-> "200", text |-> <<>>,
         content |-> c] : c \in Contents}

NoOutcome == [kind |-> "none"]

----------------------------------------------------------------------------
(* Prompt budget: enforcePromptBudget, buildPrompt (promptBuilder.js) *)

DEFAULT_PROMPT_CHAR_BUDGET == 12000

\* separator = '\\n\\n': a backslash, the letter n, a backslash, the letter n
promptSeparator ==
  <<92, 110, 92, 110>>

\* the text appended to a segment that is cut: an ellipsis, then
\* " [truncated due to size]"
truncatedSuffix ==
  <<8230, 32, 91, 116, 114, 117, 110, 99, 97, 116, 101, 100, 32, 100, 117,
    101, 32, 116, 111, 32, 115, 105, 122, 101, 93>>

\* '[Context truncated due to size]'
contextTruncated ==
  <<91, 67, 111, 110, 116, 101, 120, 116, 32, 116, 114, 117, 110, 99, 97,
    116, 101, 100, 32, 100, 117, 101, 32, 116, 111, 32, 115, 105, 122, 101,
    93>>

\* a segment of the list: a text, or undefined / null
Segment(text) == [defined |-> TRUE, text |-> text]

NoSegment == [defined |-> FALSE, text |-> <<>>]

\* the loop of enforcePromptBudget from segment k on; constrained holds the
\* texts pushed so far
RECURSIVE budgetLoop(_, _, _, _)
budgetLoop(segments, k, constrained, remaining) ==
  IF k > Len(segments) THEN constrained
  ELSE IF ~segments[k].defined
    THEN budgetLoop(segments, k + 1, constrained, remaining)
  ELSE LET text == segments[k].text
           separatorLength == IF constrained # <<>> THEN Len(promptSeparator)
                              ELSE 0
           available == remaining - separatorLength
       IN IF Len(text) + separatorLength <= remaining
            THEN budgetLoop(segments, k + 1, Append(constrained, text),
                            remaining - (Len(text) + separatorLength))
          ELSE (IF available > 16
                  THEN Append(constrained,
                              Slice(text, 0, available - 1) \o truncatedSuffix)
                  ELSE constrained)
               \o <<contextTruncated>>

\* enforcePromptBudget(segments, budget): with a budget that is not finite or
\* not positive the list is returned as it is
enforcePromptBudget(segments, budget) ==
  IF budget = NULL \/ budget <= 0 THEN [k \in 1..Len(segments) |-> segments[k].text]
  ELSE budgetLoop(segments, 1, <<>>, budget)

\* promptBudget of buildPrompt
promptBudget(promptCharBudget) ==
  IF promptCharBudget # NULL THEN promptCharBudget
  ELSE DEFAULT_PROMPT_CHAR_BUDGET

\* userMessage = constrainedSegments.join('\\n\\n'); join writes undefined
\* and null as the empty text
userMessage(segments, promptCharBudget) ==
  Join(enforcePromptBudget(segments, promptBudget(promptCharBudget)),
       promptSeparator)

----------------------------------------------------------------------------
(* Segment lists and budgets handed to buildPrompt *)

\* how many segments a prompt is made of at most
MaxPromptSegments == 3

\* the letter x, n times
Filler(n) == [k \in 1..n |-> 120]

SegmentChoices == {NoSegment} \cup {Segment(Filler(n)) : n \in {0, 5, 20, 40}}

RECURSIVE SegmentLists(_)
SegmentLists(n) ==
  IF n = 0 THEN {<<>>}
  ELSE {Append(l, s) : l \in SegmentLists(n - 1), s \in SegmentChoices}

PromptSegmentLists == UNION {SegmentLists(n) : n \in 0..MaxPromptSegments}

\* options.promptCharBudget: not a finite number, 0, or a positive number
PromptBudgets == {NULL, 0, 10, 20, 30, 60}

----------------------------------------------------------------------------
(* Presentation, spreadsheet, Keynote and OpenDocument extractors:
   naturalCompare, extractPptxText, extractKeynoteText, extractSheetText,
   extractXlsxText, extractOpenDocumentText (processFile.js) *)

\* <a:t
tagAT ==
  <<60, 97, 58, 116>>

\* </a:t>
tagATClose ==
  <<60, 47, 97, 58, 116, 62>>

\* <row
tagRow ==
  <<60, 114, 111, 119>>

\* </row>
tagRowClose ==
  <<60, 47, 114, 111, 119, 62>>

\* <c
tagC ==
  <<60, 99>>

\* </c>
tagCClose ==
  <<60, 47, 99, 62>>

\* <v>
tagV ==
  <<60, 118, 62>>

\* </v>
tagVClose ==
  <<60, 47, 118, 62>>

\* ppt/slides/slide
prefixSlide ==
  <<112, 112, 116, 47, 115, 108, 105, 100, 101, 115, 47, 115, 108, 105,
    100, 101>>

\* xl/worksheets/
prefixWorksheets ==
  <<120, 108, 47, 119, 111, 114, 107, 115, 104, 101, 101, 116, 115, 47>>

\* content.xml
nameContentXml ==
  <<99, 111, 110, 116, 101, 110, 116, 46, 120, 109, 108>>

\* index.apxl
nameIndexApxl ==
  <<105, 110, 100, 101, 120, 46, 97, 112, 120, 108>>

\* Index.apxl
nameIndexApxlUpper ==
  <<73, 110, 100, 101, 120, 46, 97, 112, 120, 108>>

\* the texts the groups of /<tag[^>]*>([\s\S]*?)<\/tag>/g capture in xml from
\* position p on, in order: open is "<tag", close is "</tag>"
RECURSIVE InnerTexts(_, _, _, _)
InnerTexts(xml, open, close, p) ==
  LET at == IndexOf(xml, open, p)
      gt == IF at = 0 THEN 0 ELSE IndexOf(xml, <<GT>>, at + Len(open))
      end == IF gt = 0 THEN 0 ELSE IndexOf(xml, close, gt + 1)
  IN IF end = 0 THEN <<>>
     ELSE <<SubSeq(xml, gt + 1, end - 1)>>
          \o InnerTexts(xml, open, close, end + Len(close))

\* xml.replace(/<[^>]+>/g, ' ')
RECURSIVE StripTags(_)
StripTags(xml) ==
  LET at == IndexOf(xml, <<LT>>, 1)
      gt == IF at = 0 THEN 0 ELSE IndexOf(xml, <<GT>>, at + 2)
  IN IF gt = 0 THEN xml
     ELSE SubSeq(xml, 1, at - 1) \o <<SP>>
          \o StripTags(SubSeq(xml, gt + 1, Len(xml)))

\* the number a run of decimal digits stands for
NumberAt(s, i) == ParseInt(SubSeq(s, i, DigitRunEnd(s, i, FALSE) - 1), 10, 0)

\* a comparison that takes digits for characters like any other: the order of
\* a.localeCompare(b, undefined, { sensitivity: 'base' })
RECURSIVE lexicalCompare(_, _)
lexicalCompare(a, b) ==
  IF a = <<>> /\ b = <<>> THEN 0
  ELSE IF a = <<>> THEN -1
  ELSE IF b = <<>> THEN 1
  ELSE IF ToLower(Head(a)) # ToLower(Head(b))
    THEN (IF ToLower(Head(a)) < ToLower(Head(b)) THEN -1 ELSE 1)
  ELSE lexicalCompare(Tail(a), Tail(b))

\* naturalCompare: a.localeCompare(b, undefined, { numeric: true,
\* sensitivity: 'base' }): runs of digits compare by their value, other
\* characters without regard to case.  Characters that are not digits are
\* ordered here by their lower-case code, which is the order of the collation
\* for the letters, digits, '/', '.', '-' and '_' of part names.
RECURSIVE naturalCompare(_, _)
naturalCompare(a, b) ==
  IF a = <<>> /\ b = <<>> THEN 0
  ELSE IF a = <<>> THEN -1
  ELSE IF b = <<>> THEN 1
  ELSE IF IsDigit(Head(a)) /\ IsDigit(Head(b))
    THEN IF NumberAt(a, 1) # NumberAt(b, 1)
           THEN (IF NumberAt(a, 1) < NumberAt(b, 1) THEN -1 ELSE 1)
         ELSE naturalCompare(SubSeq(a, DigitRunEnd(a, 1, FALSE), Len(a)),
                             SubSeq(b, DigitRunEnd(b, 1, FALSE), Len(b)))
  ELSE IF ToLower(Head(a)) # ToLower(Head(b))
    THEN (IF ToLower(Head(a)) < ToLower(Head(b)) THEN -1 ELSE 1)
  ELSE naturalCompare(Tail(a), Tail(b))

\* Array.prototype.sort(naturalCompare): a stable sort
RECURSIVE NaturalInsert(_, _)
NaturalInsert(sorted, x) ==
  IF sorted = <<>> THEN <<x>>
  ELSE IF naturalCompare(x, Head(sorted)) < 0 THEN <<x>> \o sorted
  ELSE <<Head(sorted)>> \o NaturalInsert(Tail(sorted), x)

RECURSIVE NaturalSort(_)
NaturalSort(xs) ==
  IF xs = <<>> THEN <<>>
  ELSE NaturalInsert(NaturalSort(SubSeq(xs, 1, Len(xs) - 1)), xs[Len(xs)])

\* entries.has(name)
MapHas(entries, fileName) ==
  \E k \in 1..Len(entries) : entries[k].name = fileName

\* /^ppt\/slides\/slide[0-9]+\.xml$/i.test(file)
IsSlidePart(file) ==
  LET name == LowerCase(file)
      digitsEnd == DigitRunEnd(name, Len(prefixSlide) + 1, FALSE)
  IN /\ StartsWith(name, prefixSlide)
     /\ digitsEnd > Len(prefixSlide) + 1
     /\ SubSeq(name, digitsEnd, Len(name)) = suffixXml

\* /^xl\/worksheets\/[\w-]+\.xml$/i.test(file)
IsWordCharacter(c) ==
  IsDigit(c) \/ (c >= 65 /\ c <= 90) \/ (c >= 97 /\ c <= 122) \/ c = 95

IsWorksheetPart(file) ==
  LET name == LowerCase(file)
      stem == SubSeq(file, Len(prefixWorksheets) + 1, Len(file) - Len(suffixXml))
  IN /\ StartsWith(name, prefixWorksheets)
     /\ EndsWith(name, suffixXml)
     /\ stem # <<>>
     /\ \A k \in 1..Len(stem) : IsWordCharacter(stem[k]) \/ stem[k] = HYPHEN

\* the text of one slide: every <a:t> element decoded, its lines collapsed
\* and trimmed, the non-empty ones joined by newlines (the parts of the model
\* hold no <a:br/> and no <a:tab/>, which the code replaces first)
slideText(xml) ==
  LET found == InnerTexts(xml, tagAT, tagATClose, 1)
      cleanedTexts == [k \in 1..Len(found) |->
                    NormalizeLines(decodeXmlEntities(found[k]))]
  IN Join(SelectSeq(cleanedTexts, LAMBDA t : t # <<>>), <<NL>>)

extractPptxText(entries) ==
  LET slideFiles ==
        NaturalSort(SelectSeq([k \in 1..Len(entries) |-> entries[k].name],
                              IsSlidePart))
      texts == [k \in 1..Len(slideFiles) |->
                  slideText(Utf8Decode(
                    entries[MapGet(entries, slideFiles[k])].data))]
  IN Trim(Join(SelectSeq(texts, LAMBDA t : t # <<>>), <<NL, NL>>))

\* an extractor that reads the first part of the archive, whatever its name
keynoteFromFirstPart(entries) ==
  IF entries = <<>> THEN <<>>
  ELSE NormalizeLines(decodeXmlEntities(StripTags(Utf8Decode(entries[1].data))))

\* extractKeynoteText: index.apxl, else Index.apxl, else '' (the parts of the
\* model hold no <sf:tab/> and no <sf:lineBreak/>)
extractKeynoteText(entries) ==
  IF MapHas(entries, nameIndexApxl)
    THEN NormalizeLines(decodeXmlEntities(StripTags(
           Utf8Decode(entries[MapGet(entries, nameIndexApxl)].data))))
  ELSE IF MapHas(entries, nameIndexApxlUpper)
    THEN NormalizeLines(decodeXmlEntities(StripTags(
           Utf8Decode(entries[MapGet(entries, nameIndexApxlUpper)].data))))
  ELSE <<>>

\* extractOpenDocumentText: content.xml, else '' (the parts of the model hold
\* no line break, tab or frame elements)
extractOpenDocumentText(entries) ==
  IF ~MapHas(entries, nameContentXml) THEN <<>>
  ELSE NormalizeLines(decodeXmlEntities(StripTags(
         Utf8Decode(entries[MapGet(entries, nameContentXml)].data))))

\* the value of a cell without a t attribute: the decoded text of its <v>
\* element, blanks collapsed, trimmed
cellValue(cellBody) ==
  LET values == InnerTexts(cellBody, <<LT, 118>>, tagVClose, 1)
  IN IF values = <<>> THEN <<>>
     ELSE Trim(CollapseBlanks(decodeXmlEntities(values[1])))

\* extractSheetText for sheets whose cells carry no t attribute: the cells of
\* a row joined by tabs, rows without a non-empty cell dropped, the rows
\* joined by newlines
extractSheetText(xml) ==
  LET rowBodies == InnerTexts(xml, tagRow, tagRowClose, 1)
      rows == [r \in 1..Len(rowBodies) |->
                 LET cells == InnerTexts(rowBodies[r], tagC, tagCClose, 1)
                 IN [k \in 1..Len(cells) |-> cellValue(cells[k])]]
      kept == SelectSeq(rows, LAMBDA cells :
                \E k \in 1..Len(cells) : cells[k] # <<>>)
      rowLines == [r \in 1..Len(kept) |-> Trim(Join(kept[r], <<TAB>>))]
  IN Join(SelectSeq(rowLines, LAMBDA l : l # <<>>), <<NL>>)

\* extractXlsxText on a map of parts without shared strings and without a
\* workbook part: every sheet is labelled with its file name
extractXlsxSheets(entries) ==
  LET sheetFiles ==
        NaturalSort(SelectSeq([k \in 1..Len(entries) |-> entries[k].name],
                              IsWorksheetPart))
      sheetTexts == [k \in 1..Len(sheetFiles) |->
                       extractSheetText(Utf8Decode(
                         entries[MapGet(entries, sheetFiles[k])].data))]
      sheets == [k \in 1..Len(sheetFiles) |->
                   IF sheetTexts[k] = <<>> THEN <<>>
                   ELSE sheetLabel
                        \o SubSeq(sheetFiles[k], Len(prefixWorksheets) + 1,
                                  Len(sheetFiles[k]) - Len(suffixXml))
                        \o <<NL>> \o sheetTexts[k]]
  IN Trim(Join(SelectSeq(sheets, LAMBDA t : t # <<>>), <<NL, NL>>))

----------------------------------------------------------------------------
(* Archives handed to the presentation, spreadsheet, Keynote and
   OpenDocument extractors *)

\* how many parts an archive holds at most
MaxParts == 3

SlideNumbers == {9, 10, 11}

SheetNumbers == {2, 10}

\* the text of slide n: s and the number
SlideWords(n) == <<115>> \o Digits(n)

\* the one cell of sheet n: v and the number
SheetWords(n) == <<118>> \o Digits(n)

\* ppt/slides/slideN.xml: <p:sld><a:t>sN</a:t></p:sld>
SlidePart(n) ==
  [name |-> prefixSlide \o Digits(n) \o suffixXml,
   data |-> Utf8Encode(<<60, 112, 58, 115, 108, 100, 62>> \o tagAT \o <<GT>>
                       \o SlideWords(n) \o tagATClose
                       \o <<60, 47, 112, 58, 115, 108, 100, 62>>)]

\* xl/worksheets/sheetN.xml: <row><c><v>vN</v></c></row>
SheetPart(n) ==
  [name |-> prefixWorksheets \o <<115, 104, 101, 101, 116>> \o Digits(n)
            \o suffixXml,
   data |-> Utf8Encode(tagRow \o <<GT>> \o tagC \o <<GT>> \o tagV
                       \o SheetWords(n) \o tagVClose \o tagCClose
                       \o tagRowClose)]

\* word/document.xml with the paragraph w; content.xml with the paragraph o;
\* index.apxl with the paragraph k; mimetype, a part no extractor looks for
OtherParts ==
  {[name |-> nameDocument,
    data |-> Utf8Encode(tagP \o <<GT>> \o tagT \o <<GT, 119>> \o tagTClose
                        \o tagPClose)],
   [name |-> nameContentXml,
    data |-> Utf8Encode(<<60, 116, 101, 120, 116, 58, 112, 62, 111, 60, 47, 116, 101, 120, 116, 58, 112, 62>>)],
   [name |-> nameIndexApxl,
    data |-> Utf8Encode(<<60, 115, 102, 58, 112, 62, 107, 60, 47, 115, 102, 58, 112, 62>>)],
   [name |-> <<109, 105, 109, 101, 116, 121, 112, 101>>,
    data |-> <<122, 105, 112>>]}

PartPool ==
  {SlidePart(n) : n \in SlideNumbers} \cup {SheetPart(n) : n \in SheetNumbers}
  \cup OtherParts

\* the maps of up to n parts, in every archive order, each name once
RECURSIVE PartLists(_)
PartLists(n) ==
  IF n = 0 THEN {<<>>}
  ELSE PartLists(n - 1)
       \cup {Append(l, part) : l \in {x \in PartLists(n - 1) : Len(x) = n - 1},
                               part \in PartPool}

OfficeArchives ==
  {l \in PartLists(MaxParts) :
     \A i \in 1..Len(l) : \A j \in 1..Len(l) : l[i].name = l[j].name => i = j}

OfficeKinds == {"docx", "pptx", "keynote", "xlsx", "odf"}

\* readDocxLike, readPptxLike, readKeynote, readXlsx, readOpenDocument after
\* parseZipEntries
extractOffice(kind, entries) ==
  IF kind = "docx" THEN extractDocxText(entries)
  ELSE IF kind = "pptx" THEN extractPptxText(entries)
  ELSE IF kind = "keynote" THEN extractKeynoteText(entries)
  ELSE IF kind = "xlsx" THEN extractXlsxSheets(entries)
  ELSE extractOpenDocumentText(entries)

(* processFile: the confirmation of a rename *)

\* the answers 'y' and 'yes' after trim() and toLowerCase()
answerY == <<121>>
answerYes == <<121, 101, 115>>

\* a confirmation that never asks
confirmedUnasked(forceChange, isTTY, answer, defaultAccept) == TRUE

\* promptForConfirmation: true under forceChange, false without a terminal,
\* otherwise by the answer to the question: defaultAccept for a blank answer,
\* true for y or yes, false for everything else
promptForConfirmation(forceChange, isTTY, answer, defaultAccept) ==
  IF forceChange THEN TRUE
  ELSE IF ~isTTY THEN FALSE
  ELSE LET normalized == LowerCase(Trim(answer))
       IN IF Len(normalized) = 0 THEN defaultAccept
          ELSE IF normalized = answerY \/ normalized = answerYes THEN TRUE
          ELSE FALSE

\* whether promptForConfirmation reaches rl.question
questionAsked(forceChange, isTTY) == ~forceChange /\ isTTY

\* the lines a user may type: nothing, blanks, y, yes, Y, " Yes ", n, no, ok,
\* yess
Answers ==
  {<<>>, <<32, 32>>, <<121>>, <<121, 101, 115>>, <<89>>,
   <<32, 89, 101, 115, 32>>, <<110>>, <<110, 111>>, <<111, 107>>,
   <<121, 101, 115, 115>>}

\* the options of a processFile call that bear on the rename, and whether the
\* subject organization planned a move
ConfirmOptions ==
  [forceChange : BOOLEAN, isTTY : BOOLEAN, acceptOnEnter : BOOLEAN,
   dryRun : BOOLEAN, movePlan : BOOLEAN]

NoConfirmOptions ==
  [forceChange |-> FALSE, isTTY |-> FALSE, acceptOnEnter |-> FALSE,
   dryRun |-> FALSE, movePlan |-> FALSE]

\* the file where processFile finds it
OriginalFile == [dir |-> "input", name |-> "original"]

----------------------------------------------------------------------------
(* State machines *)

DocxIdle ==
  /\ lines = <<>>
  /\ docxBuf = <<>>
  /\ docxEntries = NoZipOut
  /\ docxText = <<>>
  /\ docxPc = "idle"

ZipIdle ==
  /\ zipDesc = NoDesc
  /\ zipBuf = <<>>
  /\ zipOut = NoZipOut
  /\ zipPc = "idle"

LegacyIdle ==
  /\ legEnv = NoEnv
  /\ legPc = "idle"
  /\ legLog = <<>>
  /\ tempDir = FALSE
  /\ tempDocx = NoFile
  /\ cleaned = FALSE
  /\ legLines = <<>>
  /\ legResult = NoResult

PdfIdle ==
  /\ pdfEnv = NoPdfEnv
  /\ pdfPc = "idle"
  /\ pdfLog = <<>>
  /\ rawText = <<>>
  /\ totalPages = NULL
  /\ processedPages = NULL
  /\ usedPoppler = FALSE
  /\ pdfOut = NoPdfOut
  /\ warningIssued = NoWarningIssued
  /\ warnings = <<>>
  /\ rasterDirs = {}
  /\ pagesRead = <<>>
  /\ renderCalls = <<>>
  /\ ocrRun = NoOcrRun

RenIdle ==
  /\ renOptions = NoRenOptions
  /\ renFiles = <<>>
  /\ renNext = 0
  /\ renPc = "idle"
  /\ fsDirs = {}
  /\ fsFiles = {}
  /\ fsBefore = NoFolder
  /\ renSummary = NoSummary

StoreIdle ==
  /\ storeFiles = <<>>
  /\ storeBuf = <<>>
  /\ storeOut = NoZipOut
  /\ storePc = "idle"

SharedIdle ==
  /\ shFiles = [i \in Extractions |-> NoSharedFile]
  /\ shLocal = [i \in Extractions |-> NoLocal]
  /\ shModule = FreshModule(FALSE)
  /\ shWriter = [v \in ModuleVariables |-> 0]
  /\ shCrossed = {}

SalvageIdle ==
  /\ salBuf = <<>>
  /\ salLines = <<>>
  /\ salPc = "idle"

ProviderIdle ==
  /\ provJsonMode = "unset"
  /\ provPrompt = 0
  /\ provRequests = <<>>
  /\ provResponses = <<>>
  /\ provOutcome = NoOutcome
  /\ provPc = "idle"

PromptIdle ==
  /\ prmSegments = <<>>
  /\ prmBudget = NULL
  /\ prmMessage = <<>>
  /\ prmPc = "idle"

OfficeIdle ==
  /\ offEntries = <<>>
  /\ offKind = "none"
  /\ offText = <<>>
  /\ offPc = "idle"

ConfirmIdle ==
  /\ cfOptions = NoConfirmOptions
  /\ cfEarly = "none"
  /\ cfAsked = FALSE
  /\ cfAnswer = <<>>
  /\ cfConfirmed = "none"
  /\ cfFile = OriginalFile
  /\ cfOutcomes = <<>>
  /\ cfPc = "idle"

\* the salvaged lines are at hand, nothing is built yet
DocxInit ==
  /\ lines \in LineLists
  /\ docxBuf = <<>>
  /\ docxEntries = NoZipOut
  /\ docxText = <<>>
  /\ docxPc = "input"
  /\ ZipIdle
  /\ LegacyIdle
  /\ PdfIdle
  /\ RenIdle
  /\ StoreIdle
  /\ SharedIdle
  /\ SalvageIdle
  /\ ProviderIdle
  /\ PromptIdle
  /\ OfficeIdle
  /\ ConfirmIdle

\* an archive is at hand, parseZipEntries is not called yet
ZipInit ==
  /\ zipDesc \in ArchiveDescs
  /\ zipBuf = ArchiveImage(zipDesc)
  /\ zipOut = NoZipOut
  /\ zipPc = "input"
  /\ DocxIdle
  /\ LegacyIdle
  /\ PdfIdle
  /\ RenIdle
  /\ StoreIdle
  /\ SharedIdle
  /\ SalvageIdle
  /\ ProviderIdle
  /\ PromptIdle
  /\ OfficeIdle
  /\ ConfirmIdle

\* readFileContent is called on a legacy file
LegacyInit ==
  /\ legEnv \in LegacyEnvs
  /\ legPc = "start"
  /\ legLog = <<>>
  /\ tempDir = FALSE
  /\ tempDocx = NoFile
  /\ cleaned = FALSE
  /\ legLines = <<>>
  /\ legResult = NoResult
  /\ DocxIdle
  /\ ZipIdle
  /\ PdfIdle
  /\ RenIdle
  /\ StoreIdle
  /\ SharedIdle
  /\ SalvageIdle
  /\ ProviderIdle
  /\ PromptIdle
  /\ OfficeIdle
  /\ ConfirmIdle

\* extractPdf is called; rawText, totalPages, processedPages and usedPoppler
\* hold their initial values
PdfInit ==
  /\ pdfEnv \in PdfEnvs
  /\ pdfPc = "start"
  /\ pdfLog = <<>>
  /\ rawText = <<>>
  /\ totalPages = NULL
  /\ processedPages = NULL
  /\ usedPoppler = FALSE
  /\ pdfOut = NoPdfOut
  /\ warningIssued = NoWarningIssued
  /\ warnings = <<>>
  /\ rasterDirs = {}
  /\ pagesRead = <<>>
  /\ renderCalls = <<>>
  /\ ocrRun = NoOcrRun
  /\ DocxIdle
  /\ ZipIdle
  /\ LegacyIdle
  /\ RenIdle
  /\ StoreIdle
  /\ SharedIdle
  /\ SalvageIdle
  /\ ProviderIdle
  /\ PromptIdle
  /\ OfficeIdle
  /\ ConfirmIdle

\* runRenamer has discovered the files of the target directory and enters its
\* loop; the subject folder may exist already
RenInit ==
  /\ renOptions \in RenOptions
  /\ renFiles \in RenFileLists
  /\ renNext = 1
  /\ renPc = "loop"
  /\ fsDirs \in {{rootDirectory}, {rootDirectory, <<"root", "Acme">>}}
  /\ fsFiles = {FileAt(rootDirectory, renFiles[i]) : i \in 1..Len(renFiles)}
  /\ fsBefore = [dirs |-> fsDirs, files |-> fsFiles]
  /\ renSummary = NoSummary
  /\ DocxIdle
  /\ ZipIdle
  /\ LegacyIdle
  /\ PdfIdle
  /\ StoreIdle
  /\ SharedIdle
  /\ SalvageIdle
  /\ ProviderIdle
  /\ PromptIdle
  /\ OfficeIdle
  /\ ConfirmIdle

\* a list of files is at hand, createStoredZip is not called yet
StoreInit ==
  /\ storeFiles \in StoreLists
  /\ storeBuf = <<>>
  /\ storeOut = NoZipOut
  /\ storePc = "input"
  /\ DocxIdle
  /\ ZipIdle
  /\ LegacyIdle
  /\ PdfIdle
  /\ RenIdle
  /\ SharedIdle
  /\ SalvageIdle
  /\ ProviderIdle
  /\ PromptIdle
  /\ OfficeIdle
  /\ ConfirmIdle

\* two files are handed to the engine in a fresh process
SharedInit ==
  /\ shFiles \in [Extractions -> SharedFiles]
  /\ shLocal = [i \in Extractions |-> FirstLocal(shFiles[i])]
  /\ shModule \in {FreshModule(installed) : installed \in BOOLEAN}
  /\ shWriter = [v \in ModuleVariables |-> 0]
  /\ shCrossed = {}
  /\ DocxIdle
  /\ ZipIdle
  /\ LegacyIdle
  /\ PdfIdle
  /\ RenIdle
  /\ StoreIdle
  /\ SalvageIdle
  /\ ProviderIdle
  /\ PromptIdle
  /\ OfficeIdle
  /\ ConfirmIdle

\* a buffer is at hand, extractBinaryLines is not called yet
SalvageInit ==
  /\ salBuf \in SalvageBuffers
  /\ salLines = <<>>
  /\ salPc = "input"
  /\ DocxIdle
  /\ ZipIdle
  /\ LegacyIdle
  /\ PdfIdle
  /\ RenIdle
  /\ StoreIdle
  /\ SharedIdle
  /\ ProviderIdle
  /\ PromptIdle
  /\ OfficeIdle
  /\ ConfirmIdle

\* the client is created, generateFilename is called with a prompt
ProviderInit ==
  /\ provJsonMode \in JsonModes
  /\ provPrompt \in Prompts
  /\ provRequests = <<>>
  /\ provResponses = <<>>
  /\ provOutcome = NoOutcome
  /\ provPc = "call"
  /\ DocxIdle
  /\ ZipIdle
  /\ LegacyIdle
  /\ PdfIdle
  /\ RenIdle
  /\ StoreIdle
  /\ SharedIdle
  /\ SalvageIdle
  /\ PromptIdle
  /\ OfficeIdle
  /\ ConfirmIdle

\* the segments are collected, the budget is not applied yet
PromptInit ==
  /\ prmSegments \in PromptSegmentLists
  /\ prmBudget \in PromptBudgets
  /\ prmMessage = <<>>
  /\ prmPc = "build"
  /\ DocxIdle
  /\ ZipIdle
  /\ LegacyIdle
  /\ PdfIdle
  /\ RenIdle
  /\ StoreIdle
  /\ SharedIdle
  /\ SalvageIdle
  /\ ProviderIdle
  /\ OfficeIdle
  /\ ConfirmIdle

\* the archive is parsed, no extractor has run
OfficeInit ==
  /\ offEntries \in OfficeArchives
  /\ offKind = "none"
  /\ offText = <<>>
  /\ offPc = "parsed"
  /\ DocxIdle
  /\ ZipIdle
  /\ LegacyIdle
  /\ PdfIdle
  /\ RenIdle
  /\ StoreIdle
  /\ SharedIdle
  /\ SalvageIdle
  /\ ProviderIdle
  /\ PromptIdle
  /\ ConfirmIdle

\* processFile is called on a file of the input directory
ConfirmInit ==
  /\ cfOptions \in ConfirmOptions
  /\ cfEarly = "none"
  /\ cfAsked = FALSE
  /\ cfAnswer = <<>>
  /\ cfConfirmed = "none"
  /\ cfFile = OriginalFile
  /\ cfOutcomes = <<>>
  /\ cfPc = "start"
  /\ DocxIdle
  /\ ZipIdle
  /\ LegacyIdle
  /\ PdfIdle
  /\ RenIdle
  /\ StoreIdle
  /\ SharedIdle
  /\ SalvageIdle
  /\ ProviderIdle
  /\ PromptIdle
  /\ OfficeIdle

\* const docxBuffer = buildDocxBuffer(lines)
BuildDocx ==
  /\ docxPc = "input"
  /\ docxBuf' = buildDocxBuffer(lines)
  /\ docxPc' = "built"
  /\ UNCHANGED <<lines, docxEntries, docxText>>

\* readDocxLike: parseZipEntries, then extractDocxText on its entries
ReadDocxLike ==
  /\ docxPc = "built"
  /\ LET parsed == parseZipEntries(docxBuf) IN
       /\ docxEntries' = parsed
       /\ docxText' = IF parsed.kind = "ok" THEN extractDocxText(parsed.entries)
                      ELSE <<>>
       /\ docxPc' = IF parsed.kind = "ok" THEN "extracted" ELSE "failed"
  /\ UNCHANGED <<lines, docxBuf>>

\* const entries = parseZipEntries(buffer)
ParseZip ==
  /\ zipPc = "input"
  /\ zipOut' = parseZipEntries(zipBuf)
  /\ zipPc' = "parsed"
  /\ UNCHANGED <<zipDesc, zipBuf>>

Failure(kind) == [kind |-> kind, text |-> <<>>, message |-> <<>>]

\* readFileContent, legacy branch with convertBinary off: the warning of the
\* extension is thrown
RaiseWarning ==
  /\ legPc = "start"
  /\ LowerCase(extname(legEnv.filePath)) \in BINARY_OFFICE_WARNINGS
  /\ ~legEnv.convertBinary
  /\ legResult' = Failure("ConversionDisabled")
  /\ legPc' = "returned"
  /\ UNCHANGED <<legEnv, legLog, tempDir, tempDocx, cleaned, legLines>>

\* convertBinaryOfficeToDocx up to its first strategy: the kind is looked up,
\* the scratch directory is made, and for a Word file doc2docx is imported
StartConversion ==
  /\ legPc = "start"
  /\ LowerCase(extname(legEnv.filePath)) \in BINARY_OFFICE_WARNINGS
  /\ legEnv.convertBinary
  /\ LET kind == BINARY_OFFICE_KINDS(LowerCase(extname(legEnv.filePath))) IN
       IF kind = "undefined"
       THEN /\ legResult' = Failure("UnsupportedExtension")
            /\ legPc' = "returned"
            /\ UNCHANGED <<legLog, tempDir>>
       ELSE /\ tempDir' = TRUE
            /\ legLog' = Append(legLog, "mkdtemp")
            /\ legPc' = IF kind = "word"
                        THEN (IF legEnv.module THEN "module" ELSE "cli")
                        ELSE "salvage"
            /\ UNCHANGED legResult
  /\ UNCHANGED <<legEnv, tempDocx, cleaned, legLines>>

\* convertUsingModule: true when an invocation left a DOCX to pick up
convertUsingModule(env) == env.module /\ env.moduleTool # "none"

\* convertUsingCli: false when the input cannot be copied, else true when an
\* invocation left a DOCX to pick up
convertUsingCli(env) == env.readable /\ env.cliTool # "none"

\* the doc2docx module is tried; on success { tempPath, cleanup } is returned
AttemptModule ==
  /\ legPc = "module"
  /\ legLog' = Append(legLog, "module")
  /\ IF convertUsingModule(legEnv)
     THEN /\ tempDocx' = [exists |-> TRUE, data |-> ToolFile(legEnv.moduleTool)]
          /\ legPc' = "converted"
     ELSE /\ legPc' = "cli"
          /\ UNCHANGED tempDocx
  /\ UNCHANGED <<legEnv, tempDir, cleaned, legLines, legResult>>

\* the doc2docx command line is tried; on success { tempPath, cleanup } is
\* returned
AttemptCli ==
  /\ legPc = "cli"
  /\ legLog' = Append(legLog, "cli")
  /\ IF convertUsingCli(legEnv)
     THEN /\ tempDocx' = [exists |-> TRUE, data |-> ToolFile(legEnv.cliTool)]
          /\ legPc' = "converted"
     ELSE /\ legPc' = "salvage"
          /\ UNCHANGED tempDocx
  /\ UNCHANGED <<legEnv, tempDir, cleaned, legLines, legResult>>

\* The salvage fallback: the legacy file is read and its lines are extracted;
\* without lines the scratch directory is removed and an error naming the
\* file is thrown, else the synthetic DOCX is written to tempPath and
\* { tempPath, cleanup } is returned.  A failing read or write throws past the
\* rest of the function.
Salvage ==
  /\ legPc = "salvage"
  /\ IF ~legEnv.readable
     THEN /\ legLog' = legLog \o <<"salvage">>
          /\ legResult' = Failure("ReadFailed")
          /\ legPc' = "returned"
          /\ UNCHANGED <<tempDir, tempDocx, cleaned, legLines>>
     ELSE LET salvaged == extractBinaryLines(legEnv.source) IN
       /\ legLines' = salvaged
       /\ IF SalvageIsEmpty(salvaged)
          THEN /\ legLog' = legLog \o <<"salvage", "readFile", "cleanup">>
               /\ cleaned' = TRUE
               /\ tempDir' = FALSE
               /\ tempDocx' = NoFile
               /\ legResult' =
                    [kind |-> "NoExtractableContent", text |-> <<>>,
                     message |-> noContentPrefix \o basename(legEnv.filePath)
                                 \o noContentSuffix]
               /\ legPc' = "returned"
          ELSE IF ~legEnv.writable
          THEN /\ legLog' = legLog \o <<"salvage", "readFile">>
               /\ legResult' = Failure("WriteFailed")
               /\ legPc' = "returned"
               /\ UNCHANGED <<tempDir, tempDocx, cleaned>>
          ELSE /\ legLog' = legLog \o <<"salvage", "readFile", "writeFile">>
               /\ tempDocx' = [exists |-> TRUE,
                               data |-> buildDocxBuffer(salvaged)]
               /\ legPc' = "converted"
               /\ UNCHANGED <<tempDir, cleaned, legResult>>
  /\ UNCHANGED legEnv

\* readFileContent once { tempPath, cleanup } is at hand: readDocxLike on
\* tempPath inside try, cleanup inside finally
ReadConverted ==
  /\ legPc = "converted"
  /\ LET parsed == parseZipEntries(tempDocx.data) IN
       legResult' = IF parsed.kind = "ok"
                    THEN [kind |-> "text",
                          text |-> extractDocxText(parsed.entries),
                          message |-> <<>>]
                    ELSE Failure(parsed.kind)
  /\ legLog' = legLog \o <<"readDocxLike">>
                 \o (IF cleaned THEN <<>> ELSE <<"cleanup">>)
  /\ cleaned' = TRUE
  /\ tempDir' = (cleaned /\ tempDir)
  /\ tempDocx' = IF cleaned THEN tempDocx ELSE NoFile
  /\ legPc' = "returned"
  /\ UNCHANGED <<legEnv, legLines>>

Called(tool, yield) == [tool |-> tool, yield |-> yield]

\* a collaborator was run on this many pages of the document
Read(tool, pages) == [tool |-> tool, pages |-> pages]

\* The fast path: pdftotext bounded by the applied page limit and, when it
\* delivered text, pdfinfo for the page count.
FastPath ==
  /\ pdfPc = "start"
  /\ shouldAttemptPoppler(pdfEnv)
  /\ \E pdftotext \in PdftotextBehaviours, pdfinfo \in PdfinfoBehaviours :
     LET limit == AppliedPageLimit(pdfEnv)
         popplerText == runPdftotext(pdfEnv.doc, limit, pdftotext)
         afterText == catchTool(Process(warningIssued, warnings, rasterDirs),
                                "pdftotext", pdftotext)
         pdfinfoOutput == runPdfinfo(pdfEnv.doc, pdfinfo)
         afterInfo == catchTool(afterText, "pdfinfo", pdfinfo)
         infoTotal == IF pdfinfoOutput # <<>> THEN infoTotalPages(pdfinfoOutput)
                      ELSE NULL
         fromLimit == IF limit > 0 THEN limit ELSE NULL
         fromInfo == IF infoTotal # NULL /\ fromLimit = NULL
                     THEN (IF limit > 0 THEN Min({limit, infoTotal})
                           ELSE infoTotal)
                     ELSE fromLimit
         bounded == IF infoTotal # NULL /\ fromInfo # NULL
                    THEN Min({fromInfo, infoTotal}) ELSE fromInfo
     IN /\ pagesRead' = Append(pagesRead,
             Read("pdftotext", IF pdftotext = "ok"
                               THEN PagesWithin(pdfEnv.doc, limit) ELSE 0))
        /\ IF popplerText # <<>>
           THEN /\ rawText' = Trim(popplerText)
                /\ processedPages' = bounded
                /\ totalPages' = infoTotal
                /\ usedPoppler' = TRUE
                /\ pdfLog' = pdfLog
                     \o <<Called("pdftotext", "text"),
                          Called("pdfinfo", IF pdfinfoOutput # <<>> THEN "text"
                                            ELSE "empty")>>
                /\ warningIssued' = afterInfo.issued
                /\ warnings' = afterInfo.log
           ELSE /\ pdfLog' = Append(pdfLog, Called("pdftotext", "empty"))
                /\ warningIssued' = afterText.issued
                /\ warnings' = afterText.log
                /\ UNCHANGED <<rawText, processedPages, totalPages,
                               usedPoppler>>
  /\ pdfPc' = "parser"
  /\ UNCHANGED <<pdfEnv, pdfOut, rasterDirs, renderCalls, ocrRun>>

\* The embedded parser: without text so far the file is parsed by pdf-parse,
\* bounded by the applied page limit, and an exception of the parser leaves
\* extractPdf; with text the processed pages default to the applied limit.
EmbeddedParser ==
  /\ \/ pdfPc = "parser"
     \/ pdfPc = "start" /\ ~shouldAttemptPoppler(pdfEnv)
  /\ \E parser \in PdfParseBehaviours :
     LET limit == AppliedPageLimit(pdfEnv)
         data == pdfParse(pdfEnv.doc, limit)
     IN IF NoText(rawText)
        THEN IF parser = "throws"
             THEN /\ pdfLog' = Append(pdfLog, Called("pdfParse", "threw"))
                  /\ pdfOut' = [NoPdfOut EXCEPT !.kind = "ParseFailure"]
                  /\ pdfPc' = "failed"
                  /\ UNCHANGED <<rawText, totalPages, processedPages,
                                 pagesRead>>
             ELSE /\ rawText' = Trim(data.text)
                  /\ totalPages' = data.numpages
                  /\ processedPages' = data.numrender
                  /\ pdfLog' = Append(pdfLog,
                       Called("pdfParse", IF Trim(data.text) # <<>> THEN "text"
                                          ELSE "empty"))
                  /\ pagesRead' = Append(pagesRead,
                                         Read("pdfParse", data.numrender))
                  /\ pdfPc' = "ocr"
                  /\ UNCHANGED pdfOut
        ELSE /\ processedPages' = IF processedPages = NULL /\ limit > 0
                                  THEN limit ELSE processedPages
             /\ pdfPc' = "ocr"
             /\ UNCHANGED <<rawText, totalPages, pdfLog, pdfOut, pagesRead>>
  /\ UNCHANGED <<pdfEnv, usedPoppler, warningIssued, warnings, rasterDirs,
                 renderCalls, ocrRun>>

\* The OCR fallback: without text so far runTesseractOcr is called
Ocr ==
  /\ pdfPc = "ocr"
  /\ IF NoText(rawText)
     THEN \E pdftoppm \in PdftoppmBehaviours,
             tesseract \in TesseractBehaviours(pdfEnv.doc) :
          LET ocrResult ==
                runTesseractOcr(pdfEnv.doc, pdftoppm, tesseract,
                                Process(warningIssued, warnings, rasterDirs))
          IN /\ rawText' = IF ocrResult.text # <<>> THEN ocrResult.text
                           ELSE rawText
             /\ pdfLog' = Append(pdfLog,
                  Called("ocr", IF ocrResult.text # <<>> THEN "text"
                                ELSE "empty"))
             /\ warningIssued' = ocrResult.ps.issued
             /\ warnings' = ocrResult.ps.log
             /\ rasterDirs' = ocrResult.ps.dirs
             /\ pagesRead' = Append(pagesRead,
                                    Read("ocr", ocrResult.rasterized))
             /\ ocrRun' =
                  [images |-> ocrResult.images,
                   recognized |->
                     IF ocrResult.images = 0 THEN 0
                     ELSE Cardinality({p \in 1..ocrResult.images :
                                         tesseract[p] = "reads"}),
                   pages |-> ocrResult.pages]
     ELSE UNCHANGED <<rawText, pdfLog, warningIssued, warnings, rasterDirs,
                      pagesRead, ocrRun>>
  /\ pdfPc' = "budget"
  /\ UNCHANGED <<pdfEnv, totalPages, processedPages, usedPoppler, pdfOut,
                 renderCalls>>

\* The character budget, the two truncation flags, the extraction record,
\* and in vision mode the page renders; then extractPdf returns.  Without
\* vision mode pdftoppm is not run and its behaviour does not matter.
Finish ==
  /\ pdfPc = "budget"
  /\ \E pdftoppm \in IF pdfEnv.visionMode THEN PdftoppmBehaviours ELSE {"ok"} :
     LET budget == CharBudget(pdfEnv.textCharBudget)
         limit == AppliedPageLimit(pdfEnv)
         truncatedByCharacters == budget > 0 /\ Len(rawText) > budget
         truncatedByPages == /\ limit # 0
                             /\ totalPages # NULL
                             /\ processedPages # NULL
                             /\ totalPages > processedPages
         visionLimit == resolvedVisionLimit(pdfEnv, processedPages)
         ps == Process(warningIssued, warnings, rasterDirs)
         render == IF pdfEnv.visionMode
                   THEN renderPdfPageImages(pdfEnv.doc, visionLimit, pdftoppm,
                                            ps)
                   ELSE [images |-> <<>>, rendered |-> 0, ps |-> ps]
         after == IF pdfEnv.visionMode /\ render.images = <<>>
                  THEN [render.ps EXCEPT !.log =
                          Append(@, Warned("vision", "noRenders", "none"))]
                  ELSE render.ps
     IN /\ pdfOut' =
             [kind |-> "ok",
              text |-> CutToBudget(rawText, budget),
              ocr |-> IF \E k \in 1..Len(pdfLog) :
                           pdfLog[k] = Called("ocr", "text")
                      THEN "tesseract" ELSE "none",
              extraction |->
                [totalPages |-> totalPages,
                 processedPages |-> processedPages,
                 pageLimit |-> IF limit # 0 THEN limit ELSE NULL,
                 autoLimited |-> AutoLimited(pdfEnv),
                 truncatedByPageLimit |-> truncatedByPages,
                 truncatedByCharacterLimit |-> truncatedByCharacters,
                 characterLimit |-> IF budget > 0 THEN budget ELSE NULL,
                 extractor |-> IF usedPoppler THEN "pdftotext" ELSE "pdfjs"],
              vision |->
                IF render.images # <<>>
                THEN [providedImages |-> Len(render.images),
                      limit |-> IF visionLimit # 0 THEN visionLimit ELSE NULL,
                      truncated |-> /\ visionLimit # 0
                                    /\ totalPages # NULL
                                    /\ totalPages > visionLimit]
                ELSE NoVision,
              images |-> render.images]
        /\ warningIssued' = after.issued
        /\ warnings' = after.log
        /\ rasterDirs' = after.dirs
        /\ renderCalls' = IF pdfEnv.visionMode
                          THEN Append(renderCalls, visionLimit)
                          ELSE renderCalls
        /\ pagesRead' = IF pdfEnv.visionMode
                        THEN Append(pagesRead, Read("vision", render.rendered))
                        ELSE pagesRead
  /\ pdfPc' = "done"
  /\ UNCHANGED <<pdfEnv, pdfLog, rawText, totalPages, processedPages,
                 usedPoppler, ocrRun>>

\* One iteration of the loop of runRenamer over the discovered files.  The
\* filters skip the file, or extraction, prompting, the model or the parsing
\* of its answer throw, or the naming steps arrive at sanitizedName and the
\* model at a subject; then the destination is resolved and created, a unique
\* name is looked for, and without dry-run the file is renamed, which may
\* fail as well.
ProcessNextFile ==
  /\ renPc = "loop"
  /\ renNext <= Len(renFiles)
  /\ \E outcome \in {"skipped", "throws", "named"}, sanitizedName \in RenNames,
        subject \in RenSubjects, renameWorks \in BOOLEAN :
     LET filePath == FileAt(rootDirectory, renFiles[renNext])
         subjectResolution ==
           IF renOptions.organizeBySubject
           THEN resolveDestination(rootDirectory,
                                   renOptions.moveUnknownSubjects, subject,
                                   fsDirs)
           ELSE [found |-> FALSE, directory |-> rootDirectory,
                 subject |-> "", dirs |-> fsDirs]
         destinationDirectory ==
           IF subjectResolution.found THEN subjectResolution.directory
           ELSE filePath.dir
         resolvedSubject ==
           IF subjectResolution.found THEN subjectResolution.subject
           ELSE subject
         dirsMade == mkdirRecursive(subjectResolution.dirs,
                                    destinationDirectory)
         finalName == ensureUniqueName(destinationDirectory, sanitizedName,
                                       fsFiles)
         destinationPath == FileAt(destinationDirectory, finalName)
         moved == destinationDirectory # filePath.dir
         renameEntry == [original |-> filePath, newName |-> destinationPath,
                         subject |-> resolvedSubject]
     IN IF outcome = "skipped"
        THEN /\ renSummary' = addSkip(renSummary, [file |-> filePath])
             /\ UNCHANGED <<fsDirs, fsFiles>>
        ELSE IF outcome = "throws"
        THEN /\ renSummary' = addError(renSummary, [file |-> filePath])
             /\ UNCHANGED <<fsDirs, fsFiles>>
        ELSE IF renOptions.dryRun
        THEN /\ fsDirs' = dirsMade
             /\ renSummary' = addRename(renSummary, renameEntry)
             /\ UNCHANGED fsFiles
        ELSE IF renameWorks
        THEN /\ fsDirs' = dirsMade
             /\ fsFiles' = (fsFiles \ {filePath}) \cup {destinationPath}
             /\ renSummary' =
                  IF moved
                  THEN addMove(addRename(renSummary, renameEntry),
                               [file |-> destinationPath,
                                destination |-> destinationDirectory])
                  ELSE addRename(renSummary, renameEntry)
        ELSE /\ fsDirs' = dirsMade
             /\ renSummary' = addError(renSummary, [file |-> filePath])
             /\ UNCHANGED fsFiles
  /\ renNext' = renNext + 1
  /\ UNCHANGED <<renOptions, renFiles, renPc, fsBefore>>

\* after the last file: return summary.export()
ReturnSummary ==
  /\ renPc = "loop"
  /\ renNext > Len(renFiles)
  /\ renPc' = "returned"
  /\ UNCHANGED <<renOptions, renFiles, renNext, fsDirs, fsFiles, fsBefore,
                 renSummary>>

\* createStoredZip(files)
StoreZip ==
  /\ storePc = "input"
  /\ storeBuf' = createStoredZip(storeFiles)
  /\ storePc' = "stored"
  /\ UNCHANGED <<storeFiles, storeOut>>

\* parseZipEntries on the buffer createStoredZip returned
ParseStored ==
  /\ storePc = "stored"
  /\ storeOut' = parseZipEntries(storeBuf)
  /\ storePc' = "parsed"
  /\ UNCHANGED <<storeFiles, storeBuf>>

\* one extraction runs from one await to the next
Advance(i) ==
  /\ shLocal[i].pc \notin {"idle", "done"}
  /\ LET step == ExtractionStep(shFiles[i], shLocal[i], shModule)
     IN /\ shLocal' = [shLocal EXCEPT ![i] = step.local]
        /\ shModule' = step.mod
        /\ shCrossed' = shCrossed \cup
             {v \in step.reads : shWriter[v] \notin {0, i}}
        /\ shWriter' = [v \in ModuleVariables |->
                          IF v \in step.writes THEN i ELSE shWriter[v]]
  /\ UNCHANGED shFiles

\* extractBinaryLines(buffer)
SalvageLines ==
  /\ salPc = "input"
  /\ salLines' = extractBinaryLines(salBuf)
  /\ salPc' = "done"
  /\ UNCHANGED salBuf

Request(prompt, format) == [prompt |-> prompt, format |-> format]

\* generateFilename up to the end of its first request: the outcome is
\* returned, or thrown again, unless the catch block decides to retry
FirstRequest ==
  /\ provPc = "call"
  /\ \E response \in Responses :
       LET prefersJson == useJsonMode(provJsonMode)
           format == initialFormat(prefersJson)
           outcome == sendRequest(response)
       IN /\ provRequests' = Append(provRequests, Request(provPrompt, format))
          /\ provResponses' = Append(provResponses, response)
          /\ IF outcome.kind = "error"
                /\ canRetryAsText(prefersJson, format, outcome.message)
               THEN /\ provPc' = "retry"
                    /\ UNCHANGED provOutcome
               ELSE /\ provPc' = "done"
                    /\ provOutcome' = outcome
  /\ UNCHANGED <<provJsonMode, provPrompt>>

\* return sendRequest(prompt, 'text')
RetryAsText ==
  /\ provPc = "retry"
  /\ \E response \in Responses :
       /\ provRequests' = Append(provRequests, Request(provPrompt, "text"))
       /\ provResponses' = Append(provResponses, response)
       /\ provOutcome' = sendRequest(response)
  /\ provPc' = "done"
  /\ UNCHANGED <<provJsonMode, provPrompt>>

\* buildPrompt: enforcePromptBudget and join
BuildPrompt ==
  /\ prmPc = "build"
  /\ prmMessage' = userMessage(prmSegments, prmBudget)
  /\ prmPc' = "done"
  /\ UNCHANGED <<prmSegments, prmBudget>>

\* one of the extractors runs on the entries
ExtractOffice ==
  /\ offPc = "parsed"
  /\ \E kind \in OfficeKinds :
       /\ offKind' = kind
       /\ offText' = extractOffice(kind, offEntries)
  /\ offPc' = "done"
  /\ UNCHANGED offEntries

\* processFile up to the rename proposal: the filters, the extraction or
\* getNewName skip the file, or one of them throws and the catch block records
\* the error, or a name is proposed
ProposeName ==
  /\ cfPc = "start"
  /\ \E early \in {"skipped", "error", "proposed"} :
       /\ cfEarly' = early
       /\ cfOutcomes' = IF early = "proposed" THEN <<"processed">>
                        ELSE <<"processed", early>>
       /\ cfPc' = IF early = "proposed" THEN "confirm" ELSE "done"
  /\ UNCHANGED <<cfOptions, cfAsked, cfAnswer, cfConfirmed, cfFile>>

\* const confirmed = await promptForConfirmation(...); if (!confirmed) the
\* file is skipped
Confirm ==
  /\ cfPc = "confirm"
  /\ \E answer \in IF questionAsked(cfOptions.forceChange, cfOptions.isTTY)
                   THEN Answers ELSE {<<>>} :
     LET confirmed == promptForConfirmation(cfOptions.forceChange,
                                            cfOptions.isTTY, answer,
                                            cfOptions.acceptOnEnter)
     IN /\ cfAsked' = questionAsked(cfOptions.forceChange, cfOptions.isTTY)
        /\ cfAnswer' = answer
        /\ cfConfirmed' = IF confirmed THEN "yes" ELSE "no"
        /\ cfOutcomes' = IF confirmed THEN cfOutcomes
                         ELSE Append(cfOutcomes, "skipped")
        /\ cfPc' = IF confirmed THEN "apply" ELSE "done"
  /\ UNCHANGED <<cfOptions, cfEarly, cfFile>>

\* if (dryRun) the preview is recorded and processFile returns; otherwise
\* saveFile renames the file in its directory, or throws
Rename ==
  /\ cfPc = "apply"
  /\ IF cfOptions.dryRun
     THEN /\ cfOutcomes' = Append(cfOutcomes, "dry-run")
          /\ cfPc' = "done"
          /\ UNCHANGED cfFile
     ELSE \E saved \in BOOLEAN :
            IF saved
            THEN /\ cfFile' = [cfFile EXCEPT !.name = "proposed"]
                 /\ cfOutcomes' = Append(cfOutcomes, "renamed")
                 /\ cfPc' = IF cfOptions.movePlan THEN "move" ELSE "done"
            ELSE /\ cfOutcomes' = Append(cfOutcomes, "error")
                 /\ cfPc' = "done"
                 /\ UNCHANGED cfFile
  /\ UNCHANGED <<cfOptions, cfEarly, cfAsked, cfAnswer, cfConfirmed>>

\* with a subject move plan: fs.mkdir and fs.rename into the subject folder; a
\* failure is caught and reported
MoveToSubjectFolder ==
  /\ cfPc = "move"
  /\ \E moves \in BOOLEAN :
       cfFile' = IF moves THEN [cfFile EXCEPT !.dir = "subject"] ELSE cfFile
  /\ cfPc' = "done"
  /\ UNCHANGED <<cfOptions, cfEarly, cfAsked, cfAnswer, cfConfirmed,
                 cfOutcomes>>

vars ==
  <<docxVars, zipVars, legacyVars, pdfVars, renVars, storeVars, sharedVars, salvageVars, providerVars, promptVars, officeVars, confirmVars>>

PdfNext ==
  \/ FastPath /\ UNCHANGED <<docxVars, zipVars, legacyVars, renVars, storeVars, sharedVars, salvageVars, providerVars, promptVars, officeVars, confirmVars>>
  \/ EmbeddedParser /\ UNCHANGED <<docxVars, zipVars, legacyVars, renVars, storeVars, sharedVars, salvageVars, providerVars, promptVars, officeVars, confirmVars>>
  \/ Ocr /\ UNCHANGED <<docxVars, zipVars, legacyVars, renVars, storeVars, sharedVars, salvageVars, providerVars, promptVars, officeVars, confirmVars>>
  \/ Finish /\ UNCHANGED <<docxVars, zipVars, legacyVars, renVars, storeVars, sharedVars, salvageVars, providerVars, promptVars, officeVars, confirmVars>>

LegacyNext ==
  \/ RaiseWarning /\ UNCHANGED <<docxVars, zipVars, pdfVars, renVars, storeVars, sharedVars, salvageVars, providerVars, promptVars, officeVars, confirmVars>>
  \/ StartConversion /\ UNCHANGED <<docxVars, zipVars, pdfVars, renVars, storeVars, sharedVars, salvageVars, providerVars, promptVars, officeVars, confirmVars>>
  \/ AttemptModule /\ UNCHANGED <<docxVars, zipVars, pdfVars, renVars, storeVars, sharedVars, salvageVars, providerVars, promptVars, officeVars, confirmVars>>
  \/ AttemptCli /\ UNCHANGED <<docxVars, zipVars, pdfVars, renVars, storeVars, sharedVars, salvageVars, providerVars, promptVars, officeVars, confirmVars>>
  \/ Salvage /\ UNCHANGED <<docxVars, zipVars, pdfVars, renVars, storeVars, sharedVars, salvageVars, providerVars, promptVars, officeVars, confirmVars>>
  \/ ReadConverted /\ UNCHANGED <<docxVars, zipVars, pdfVars, renVars, storeVars, sharedVars, salvageVars, providerVars, promptVars, officeVars, confirmVars>>

DocxNext ==
  \/ BuildDocx /\ UNCHANGED <<zipVars, legacyVars, pdfVars, renVars, storeVars, sharedVars, salvageVars, providerVars, promptVars, officeVars, confirmVars>>
  \/ ReadDocxLike /\ UNCHANGED <<zipVars, legacyVars, pdfVars, renVars, storeVars, sharedVars, salvageVars, providerVars, promptVars, officeVars, confirmVars>>

ZipNext == ParseZip /\ UNCHANGED <<docxVars, legacyVars, pdfVars, renVars, storeVars, sharedVars, salvageVars, providerVars, promptVars, officeVars, confirmVars>>

SpecDocx == DocxInit /\ [][DocxNext]_vars

SpecZip == ZipInit /\ [][ZipNext]_vars

SpecLegacy == LegacyInit /\ [][LegacyNext]_vars

SpecPdf == PdfInit /\ [][PdfNext]_vars

RenNext ==
  \/ ProcessNextFile /\ UNCHANGED <<docxVars, zipVars, legacyVars, pdfVars, storeVars, sharedVars, salvageVars, providerVars, promptVars, officeVars, confirmVars>>
  \/ ReturnSummary /\ UNCHANGED <<docxVars, zipVars, legacyVars, pdfVars, storeVars, sharedVars, salvageVars, providerVars, promptVars, officeVars, confirmVars>>

SpecRename == RenInit /\ [][RenNext]_vars

StoreNext ==
  \/ StoreZip
       /\ UNCHANGED <<docxVars, zipVars, legacyVars, pdfVars, renVars, sharedVars, salvageVars, providerVars, promptVars, officeVars, confirmVars>>
  \/ ParseStored
       /\ UNCHANGED <<docxVars, zipVars, legacyVars, pdfVars, renVars, sharedVars, salvageVars, providerVars, promptVars, officeVars, confirmVars>>

SpecStore == StoreInit /\ [][StoreNext]_vars

SharedNext ==
  \E i \in Extractions :
    Advance(i)
      /\ UNCHANGED <<docxVars, zipVars, legacyVars, pdfVars, renVars, storeVars, salvageVars, providerVars, promptVars, officeVars, confirmVars>>

SpecShared == SharedInit /\ [][SharedNext]_vars

SalvageNext ==
  SalvageLines
    /\ UNCHANGED <<docxVars, zipVars, legacyVars, pdfVars, renVars, storeVars, sharedVars, providerVars, promptVars, officeVars, confirmVars>>

SpecSalvage == SalvageInit /\ [][SalvageNext]_vars

ProviderNext ==
  \/ FirstRequest
       /\ UNCHANGED <<docxVars, zipVars, legacyVars, pdfVars, renVars, storeVars, sharedVars, salvageVars, promptVars, officeVars, confirmVars>>
  \/ RetryAsText
       /\ UNCHANGED <<docxVars, zipVars, legacyVars, pdfVars, renVars, storeVars, sharedVars, salvageVars, promptVars, officeVars, confirmVars>>

SpecProvider == ProviderInit /\ [][ProviderNext]_vars

PromptNext ==
  BuildPrompt
    /\ UNCHANGED <<docxVars, zipVars, legacyVars, pdfVars, renVars, storeVars, sharedVars, salvageVars, providerVars, officeVars, confirmVars>>

SpecPrompt == PromptInit /\ [][PromptNext]_vars

OfficeNext ==
  ExtractOffice
    /\ UNCHANGED <<docxVars, zipVars, legacyVars, pdfVars, renVars, storeVars, sharedVars, salvageVars, providerVars, promptVars, confirmVars>>

SpecOffice == OfficeInit /\ [][OfficeNext]_vars

ConfirmNext ==
  \/ ProposeName
    /\ UNCHANGED <<docxVars, zipVars, legacyVars, pdfVars, renVars, storeVars, sharedVars, salvageVars, providerVars, promptVars, officeVars>>
  \/ Confirm
    /\ UNCHANGED <<docxVars, zipVars, legacyVars, pdfVars, renVars, storeVars, sharedVars, salvageVars, providerVars, promptVars, officeVars>>
  \/ Rename
    /\ UNCHANGED <<docxVars, zipVars, legacyVars, pdfVars, renVars, storeVars, sharedVars, salvageVars, providerVars, promptVars, officeVars>>
  \/ MoveToSubjectFolder
    /\ UNCHANGED <<docxVars, zipVars, legacyVars, pdfVars, renVars, storeVars, sharedVars, salvageVars, providerVars, promptVars, officeVars>>

SpecConfirm == ConfirmInit /\ [][ConfirmNext]_vars

----------------------------------------------------------------------------
(* Properties *)

\* C1: lines packaged by buildDocxBuffer and read back by parseZipEntries and
\* extractDocxText come back unchanged, in order, joined by a blank line.
RoundTripReproducesLines ==
  (docxPc \in {"extracted", "failed"} /\ lines # <<>>)
    => (docxPc = "extracted" /\ docxText = Join(lines, <<NL, NL>>))

WitnessRoundTripTwoLines ==
  /\ docxPc = "extracted"
  /\ Len(lines) = 2
  /\ \E k \in 1..2 : \E i \in 1..Len(lines[k]) : lines[k][i] \in {AMP, LT}
  /\ docxText = lines[1] \o <<NL, NL>> \o lines[2]

\* the EOCD signature stands at 0-based offset i of the buffer
SignatureAt(buffer, i) == MatchAt(buffer, i + 1, <<80, 75, 5, 6>>)

EocdLocatable(buffer) ==
  \E i \in 0..(Len(buffer) - EOCD_LENGTH) : SignatureAt(buffer, i)

KeySet(entries) == {entries[k].name : k \in 1..Len(entries)}

DescIndices == 1..Len(zipDesc.entries)

\* record j of the description lets the walk go on to record j + 1
Passable(j) ==
  /\ zipDesc.brokenAt # j
  /\ zipDesc.entries[j].local # "beyond"
  /\ zipDesc.entries[j].local = "ok" => zipDesc.entries[j].method \in {0, 8}

\* the walk reaches record k
Reached(k) == \A j \in 1..(k - 1) : Passable(j)

\* C2: on an archive with a locatable EOCD, an intact central directory and
\* only Store and Deflate entries, parseZipEntries returns a mapping whose keys
\* are the names of the central directory, less the entries whose local file
\* header signature does not match; a stale record never makes it fail.
KeysEqualCentralDirectoryNames ==
  (/\ zipPc = "parsed"
   /\ EocdLocatable(zipBuf)
   /\ zipDesc.brokenAt = 0
   /\ \A k \in DescIndices : zipDesc.entries[k].method \in {0, 8})
    => /\ zipOut.kind = "ok"
       /\ KeySet(zipOut.entries) =
            {zipDesc.entries[k].name :
               k \in {j \in DescIndices : zipDesc.entries[j].local = "ok"}}

\* C9 as stated: an archive with a locatable EOCD, an intact central directory
\* and every stored offset inside the buffer, one of whose records declares a
\* method other than Store and Deflate, makes parseZipEntries fail with the
\* unsupported-compression error and return no mapping.
UnsupportedMethodAlwaysFails ==
  (/\ zipPc = "parsed"
   /\ EocdLocatable(zipBuf)
   /\ zipDesc.brokenAt = 0
   /\ \A k \in DescIndices : zipDesc.entries[k].local # "beyond"
   /\ \E k \in DescIndices : zipDesc.entries[k].method \notin {0, 8})
    => (zipOut.kind = "UnsupportedCompression" /\ zipOut.entries = <<>>)

\* C9 as amended: parseZipEntries fails with the unsupported-compression error,
\* and returns no mapping, exactly when its walk reaches a record that declares
\* a method other than Store and Deflate and whose local file header matches.
UnsupportedMethodFailsWhenReached ==
  (zipPc = "parsed" /\ EocdLocatable(zipBuf))
    => /\ zipOut.kind = "UnsupportedCompression"
            <=> \E k \in DescIndices :
                  /\ Reached(k)
                  /\ zipDesc.brokenAt # k
                  /\ zipDesc.entries[k].local = "ok"
                  /\ zipDesc.entries[k].method \notin {0, 8}
       /\ zipOut.kind = "UnsupportedCompression" => zipOut.entries = <<>>

WitnessUnsupportedAfterStored ==
  /\ zipPc = "parsed"
  /\ zipOut.kind = "UnsupportedCompression"
  /\ Len(zipDesc.entries) = 2
  /\ zipDesc.entries[1].local = "ok"
  /\ zipDesc.entries[1].method = 0
  /\ zipDesc.entries[2].method = 99

\* C10: parseZipEntries fails with the malformed-archive error exactly when
\* no EOCD signature stands at an offset the backward scan visits (0 up to
\* length - 22), so on every buffer shorter than 22 bytes; it then returns no
\* mapping.
MalformedIffNoEocdFound ==
  zipPc = "parsed"
    => /\ zipOut.kind = "MalformedArchive" <=> ~EocdLocatable(zipBuf)
       /\ Len(zipBuf) < EOCD_LENGTH => zipOut.kind = "MalformedArchive"
       /\ zipOut.kind = "MalformedArchive" => zipOut.entries = <<>>

WitnessMalformedShortBuffer ==
  /\ zipPc = "parsed"
  /\ zipOut.kind = "MalformedArchive"
  /\ Len(zipBuf) < EOCD_LENGTH
  /\ SignatureAt(zipBuf, 0)

\* the strategies a log records, in the order they were attempted
Strategies(log) ==
  SelectSeq(log, LAMBDA step : step \in {"module", "cli", "salvage"})

IsPrefix(a, b) == Len(a) <= Len(b) /\ SubSeq(b, 1, Len(a)) = a

legExt == LowerCase(extname(legEnv.filePath))

\* the chain module (if importable) -> command line -> salvage, cut after the
\* first strategy that leaves a DOCX
FullChain ==
  (IF legEnv.module THEN <<"module">> ELSE <<>>)
  \o (IF legEnv.module /\ legEnv.moduleTool # "none" THEN <<>>
      ELSE <<"cli">> \o (IF legEnv.readable /\ legEnv.cliTool # "none"
                         THEN <<>> ELSE <<"salvage">>))

\* convertBinaryOfficeToDocx has come to its end
ConversionOver == legPc \in {"converted", "returned"} /\ legEnv.convertBinary

\* C6: when control is back at the caller of readFileContent, the scratch
\* directory of the legacy conversion and the temporary DOCX in it are gone,
\* whichever way the call ended.
ScratchRemovedOnEveryExit ==
  legPc = "returned" => (~tempDir /\ ~tempDocx.exists)

\* C7 as stated: for each of the seven legacy extensions the strategies are
\* attempted in the order module (if importable), command line, salvage, a
\* later one only after the earlier ones failed, the first success ending the
\* chain.
ChainForEveryExtension ==
  /\ IsPrefix(Strategies(legLog), FullChain)
  /\ ConversionOver => Strategies(legLog) = FullChain

\* C7 as amended: for .doc and .dot the strategies are attempted in the order
\* module (if importable), command line, salvage, a later one only after the
\* earlier ones failed, the first success ending the chain; for .ppt, .pps,
\* .pot, .xls and .xlt salvage is the only strategy attempted.
ChainForWordSalvageForOthers ==
  LET chain == IF legExt \in wordExtensions THEN FullChain ELSE <<"salvage">>
  IN /\ IsPrefix(Strategies(legLog), chain)
     /\ ConversionOver => Strategies(legLog) = chain

WitnessWholeChainForWord ==
  /\ legPc = "converted"
  /\ legExt \in wordExtensions
  /\ legEnv.module
  /\ SelectSeq(legLog, LAMBDA step : step # "readFile")
       = <<"mkdtemp", "module", "cli", "salvage", "writeFile">>

\* C8: when the salvage yields no line, the conversion ends with an error
\* whose message holds the name of the legacy file, no DOCX is written and no
\* conversion result reaches the Word extractor; the synthetic DOCX is
\* written only for at least one salvaged line, and it packages those lines.
NoLinesFailsNamingTheFile ==
  /\ ("readFile" \in {legLog[k] : k \in 1..Len(legLog)} /\ legLines = <<>>)
       => /\ legPc = "returned"
          /\ legResult.kind = "NoExtractableContent"
          /\ \E name \in LegacyNames :
                /\ legEnv.filePath = legacyDir \o name
                /\ legResult.message = noContentPrefix \o name \o noContentSuffix
          /\ {"writeFile", "readDocxLike"}
               \cap {legLog[k] : k \in 1..Len(legLog)} = {}
          /\ ~tempDocx.exists
  /\ "writeFile" \in {legLog[k] : k \in 1..Len(legLog)}
       => /\ legLines # <<>>
          /\ legPc = "converted" => tempDocx.data = buildDocxBuffer(legLines)

WitnessNoLinesFromShortRun ==
  /\ legPc = "returned"
  /\ legResult.kind = "NoExtractableContent"
  /\ legEnv.source # <<>>
  /\ legExt \notin wordExtensions

\* the calls of the three text strategies a log records, in order
TextCalls(log) ==
  SelectSeq(log, LAMBDA call : call.tool \in {"pdftotext", "pdfParse", "ocr"})

Rank(tool) ==
  IF tool = "pdftotext" THEN 1 ELSE IF tool = "pdfParse" THEN 2 ELSE 3

\* what the strategy yielded: "text", "empty", "threw", or "notCalled"
YieldOf(log, tool) ==
  LET at == {k \in 1..Len(log) : log[k].tool = tool}
  IN IF at = {} THEN "notCalled" ELSE log[Min(at)].yield

\* C3: the text strategies run in the order pdftotext, pdf-parse, OCR, each at
\* most once; pdf-parse runs exactly when pdftotext was not called or yielded
\* no text; OCR runs exactly when pdftotext was not called or yielded no text
\* and pdf-parse returned empty text; after a strategy that yielded text no
\* later strategy is called.
StrategiesInPriorityOrder ==
  LET calls == TextCalls(pdfLog)
      fast == YieldOf(pdfLog, "pdftotext")
      parsed == YieldOf(pdfLog, "pdfParse")
      read == YieldOf(pdfLog, "ocr")
  IN /\ \A i, j \in 1..Len(calls) :
          i < j => /\ Rank(calls[i].tool) < Rank(calls[j].tool)
                   /\ calls[i].yield = "empty"
     /\ parsed # "notCalled" => fast \in {"notCalled", "empty"}
     /\ read # "notCalled"
          => (fast \in {"notCalled", "empty"} /\ parsed = "empty")
     /\ pdfPc \in {"ocr", "budget", "done", "failed"}
          => (parsed # "notCalled" <=> fast \in {"notCalled", "empty"})
     /\ pdfPc \in {"budget", "done"}
          => (read # "notCalled"
                <=> (fast \in {"notCalled", "empty"} /\ parsed = "empty"))

WitnessOcrAfterTwoEmptyStrategies ==
  /\ pdfPc = "done"
  /\ TextCalls(pdfLog) = <<Called("pdftotext", "empty"),
                           Called("pdfParse", "empty"), Called("ocr", "text")>>
  /\ pdfOut.text # <<>>

\* the character budget in force: the option, or the default without one
BudgetInForce ==
  IF pdfEnv.textCharBudget = NULL THEN DEFAULT_CHAR_BUDGET
  ELSE pdfEnv.textCharBudget

\* C4: under a character budget b > 0 the returned text is the prefix of the
\* raw text of length min(b, raw length), the character flag tells whether
\* the raw text was longer than b, and b is reported as the applied limit.
BudgetCutsToPrefix ==
  (pdfPc = "done" /\ BudgetInForce > 0)
    => /\ pdfOut.text = SubSeq(rawText, 1, Min({BudgetInForce, Len(rawText)}))
       /\ Len(pdfOut.text) <= BudgetInForce
       /\ pdfOut.extraction.truncatedByCharacterLimit
            <=> Len(rawText) > BudgetInForce
       /\ pdfOut.extraction.characterLimit = BudgetInForce

WitnessOcrTextCutToBudget ==
  /\ pdfPc = "done"
  /\ pdfEnv.textCharBudget = MaxBudget
  /\ YieldOf(pdfLog, "ocr") = "text"
  /\ Len(rawText) > MaxBudget
  /\ Len(pdfOut.text) = MaxBudget
  /\ pdfOut.extraction.truncatedByCharacterLimit

\* C5: under an applied page limit p > 0 the processed-page count reported is
\* at most p, and the page flag tells whether the document has more pages
\* than were processed.
PageFlagTellsTruncation ==
  (pdfPc = "done" /\ AppliedPageLimit(pdfEnv) > 0)
    => /\ pdfOut.extraction.processedPages # NULL
       /\ pdfOut.extraction.processedPages <= AppliedPageLimit(pdfEnv)
       /\ pdfOut.extraction.truncatedByPageLimit
            <=> Len(pdfEnv.doc) > pdfOut.extraction.processedPages

\* the external tools of the PDF pipeline
PdfTools == {"pdftotext", "pdfinfo", "pdftoppm", "tesseract"}

\* the calls of logger.warn that report this tool as not found (ENOENT)
MissingReports(tool) ==
  {k \in 1..Len(warnings) :
     warnings[k].tool = tool /\ warnings[k].code = "ENOENT"}

\* C11: for each of pdftotext, pdfinfo, pdftoppm and tesseract the condition
\* that the tool is missing is reported to the logger at most once, not once
\* per file and not once per page.
MissingToolReportedAtMostOnce ==
  \A tool \in PdfTools : Cardinality(MissingReports(tool)) <= 1
\* C12: extractPdf surfaces an error to its caller only once every stage, OCR
\* included, has failed to produce text: when it throws, the OCR fallback was
\* called and yielded no text, and no text was obtained before it.
ErrorOnlyAfterEveryStageFailed ==
  pdfPc = "failed"
    => /\ YieldOf(pdfLog, "ocr") = "empty"
       /\ rawText = <<>>
\* C13: in dry-run mode processing the files writes nothing to the user's
\* files and folders: no file is renamed or moved and no directory, subject
\* and Unknown folders included, is created.
DryRunWritesNothing ==
  renOptions.dryRun => (fsDirs = fsBefore.dirs /\ fsFiles = fsBefore.files)
\* the length of the local entry of file i: header, name and data
LocalLength(files, i) == 30 + Len(files[i].name) + Len(files[i].data)

\* the length of the central record of file i: header and name
CentralLength(files, i) == 46 + Len(files[i].name)

\* the total length of the local entries of the files before file i
RECURSIVE LocalBefore(_, _)
LocalBefore(files, i) ==
  IF i <= 1 THEN 0
  ELSE LocalBefore(files, i - 1) + LocalLength(files, i - 1)

\* the total length of the central records of the files before file i
RECURSIVE CentralBefore(_, _)
CentralBefore(files, i) ==
  IF i <= 1 THEN 0
  ELSE CentralBefore(files, i - 1) + CentralLength(files, i - 1)

\* C14: in the stream createStoredZip returns the local entries stand in
\* input order, followed by the central directory and the EOCD record; the
\* i-th central record stores as local-header offset the total length of the
\* local entries before it; the EOCD stores the number of entries, the length
\* of the central directory and, as its offset, the length of the local
\* section.
StoredOffsetsCumulative ==
  storePc = "stored" =>
    LET files == storeFiles
        n == Len(files)
        localLength == LocalBefore(files, n + 1)
        centralLength == CentralBefore(files, n + 1)
        eocdAt == localLength + centralLength
    IN /\ Len(storeBuf) = eocdAt + EOCD_LENGTH
       /\ \A i \in 1..n :
            LET at == LocalBefore(files, i)
                recordAt == localLength + CentralBefore(files, i)
            IN /\ readUInt32LE(storeBuf, at) = LOCAL_FILE_HEADER_SIGNATURE
               /\ SubSeq(storeBuf, at + 31, at + LocalLength(files, i))
                    = files[i].name \o files[i].data
               /\ readUInt32LE(storeBuf, recordAt)
                    = CENTRAL_DIRECTORY_SIGNATURE
               /\ readUInt32LE(storeBuf, recordAt + 42) = at
               /\ SubSeq(storeBuf, recordAt + 47,
                         recordAt + CentralLength(files, i)) = files[i].name
       /\ readUInt32LE(storeBuf, eocdAt) = EOCD_SIGNATURE
       /\ readUInt16LE(storeBuf, eocdAt + 8) = n
       /\ readUInt16LE(storeBuf, eocdAt + 10) = n
       /\ readUInt32LE(storeBuf, eocdAt + 12) = centralLength
       /\ readUInt32LE(storeBuf, eocdAt + 16) = localLength

\* three files of different lengths: the third central record points past the
\* first two local entries
WitnessThirdOffsetPastTwoEntries ==
  /\ storePc = "stored"
  /\ Len(storeFiles) = 3
  /\ LocalLength(storeFiles, 1) # LocalLength(storeFiles, 2)
  /\ readUInt32LE(storeBuf,
                  LocalBefore(storeFiles, 4) + CentralBefore(storeFiles, 3)
                    + 42)
       = LocalLength(storeFiles, 1) + LocalLength(storeFiles, 2)
\* C15: under an applied page limit p > 0 no text strategy is run on more
\* than the first p pages: pdftotext, the embedded parser and the
\* rasterization of the OCR fallback are all bounded by p.
PageLimitBoundsEveryStrategy ==
  AppliedPageLimit(pdfEnv) > 0 =>
    \A k \in 1..Len(pagesRead) :
      pagesRead[k].tool \in {"pdftotext", "pdfParse", "ocr"}
        => pagesRead[k].pages <= AppliedPageLimit(pdfEnv)
\* the positive ones of the explicit vision page limit, the applied text page
\* limit and the processed page count reported
VisionBounds ==
  {v \in {pdfEnv.visionPageLimit, AppliedPageLimit(pdfEnv),
          pdfOut.extraction.processedPages} : v # NULL /\ v > 0}

NoCrossFileSharedState == shCrossed = {}

\* C17: module-level variables written during the extraction of one file are
\* read during the extraction of another (the warning flags, the cached
\* doc2docx import), but for any two files extracted in either order or
\* interleaved each returned record equals the record obtained when the file
\* is extracted alone.
RecordsEqualExtractedAlone ==
  \A i \in Extractions :
    shLocal[i].pc = "done"
      => shLocal[i] = ExtractedAlone(shFiles[i], shModule.installed)

\* two different PDFs are extracted and one extraction read the pdftoppm
\* flag that the other had set
WitnessFlagSetByOtherFile ==
  /\ \A i \in Extractions : shLocal[i].pc = "done"
  /\ "pdftoppm" \in shCrossed
  /\ shFiles[1].kind = "pdf"
  /\ shFiles[2].kind = "pdf"
  /\ shFiles[1] # shFiles[2]

\* a printable byte of single-byte text
PrintableByte(b) == b >= 32 /\ b <= 126

\* the Latin-1 printable runs a buffer holds: the maximal stretches of at
\* least four printable bytes, trimmed
Latin1RunsIn(buffer) ==
  {Trim(SubSeq(buffer, p[1], p[2])) :
     p \in {q \in (1..Len(buffer)) \X (1..Len(buffer)) :
              /\ q[2] - q[1] + 1 >= 4
              /\ \A k \in q[1]..q[2] : PrintableByte(buffer[k])
              /\ q[1] = 1 \/ ~PrintableByte(buffer[q[1] - 1])
              /\ q[2] = Len(buffer) \/ ~PrintableByte(buffer[q[2] + 1])}}

\* a printable character encoded as UTF-16LE starts at byte k
Utf16UnitAt(buffer, k) ==
  /\ k >= 1
  /\ k + 1 <= Len(buffer)
  /\ PrintableByte(buffer[k])
  /\ buffer[k + 1] = 0

\* the UTF-16LE printable runs a buffer holds: the maximal stretches of at
\* least four printable characters encoded low byte first, trimmed
Utf16RunsIn(buffer) ==
  {Trim([k \in 1..p[2] |-> buffer[p[1] + 2 * (k - 1)]]) :
     p \in {q \in (1..Len(buffer)) \X (4..Len(buffer)) :
              /\ \A k \in 1..q[2] : Utf16UnitAt(buffer, q[1] + 2 * (k - 1))
              /\ ~Utf16UnitAt(buffer, q[1] - 2)
              /\ ~Utf16UnitAt(buffer, q[1] + 2 * q[2])}}

\* C18: the salvage returns no line twice, and from a buffer that holds both
\* a Latin-1 printable run and a UTF-16LE printable run it returns each of
\* these runs as a line, with the characters the run has in the buffer.
BothEncodingsSalvagedOnce ==
  salPc = "done" =>
    /\ \A i \in 1..Len(salLines) : \A j \in 1..Len(salLines) :
         salLines[i] = salLines[j] => i = j
    /\ (Latin1RunsIn(salBuf) # {} /\ Utf16RunsIn(salBuf) # {}) =>
         \A run \in Latin1RunsIn(salBuf) \cup Utf16RunsIn(salBuf) :
           \E i \in 1..Len(salLines) : salLines[i] = run

\* the three interpretations of a buffer, each with the class of its match
Interpretations(buffer) ==
  {[text |-> Latin1Decode(buffer), cls |-> "ascii"],
   [text |-> Utf16leDecode(buffer), cls |-> "unicode"],
   [text |-> Utf8Decode(buffer), cls |-> "unicode"]}

\* the length of the maximal run of class characters that position a of the
\* text lies in
RunLengthAround(text, cls, a) ==
  LET before == {k \in 1..a : ~InClass(cls, text[k])}
      after == {k \in a..Len(text) : ~InClass(cls, text[k])}
      first == IF before = {} THEN 1 ELSE Max(before) + 1
      last == IF after = {} THEN Len(text) ELSE Min(after) - 1
  IN last - first + 1

\* the line is a stretch of class characters of the text, white space
\* collapsed and trimmed, and that stretch lies in a run of at least four
LineFromLongRun(line, text, cls) ==
  \E a \in 1..Len(text) : \E b \in a..Len(text) :
    /\ \A k \in a..b : InClass(cls, text[k])
    /\ Trim(CollapseWhiteSpace(SubSeq(text, a, b))) = line
    /\ RunLengthAround(text, cls, a) >= 4

RejectedForFormat(response) ==
  /\ response.kind = "http"
  /\ ~response.ok
  /\ MentionsFormatRejection(response.text)

\* generateFilename sent one request and returned or threw its outcome
SentOnce ==
  /\ Len(provRequests) = 1
  /\ provOutcome = sendRequest(provResponses[1])

\* generateFilename sent the same prompt a second time, as text, and returned
\* or threw the outcome of the second request
RetriedOnceAsText ==
  /\ Len(provRequests) = 2
  /\ provRequests[1] = Request(provPrompt, "json_object")
  /\ provRequests[2] = Request(provPrompt, "text")
  /\ provOutcome = sendRequest(provResponses[2])

UserMessageWithinBudget ==
  prmPc = "done" =>
    /\ (prmBudget # NULL /\ prmBudget > 0) => Len(prmMessage) <= prmBudget
    /\ prmBudget = 0 =>
         prmMessage = Join([k \in 1..Len(prmSegments) |-> prmSegments[k].text],
                           promptSeparator)

\* the archive lacks the parts the extractor of this kind reads
LacksExpectedParts(kind, entries) ==
  \A k \in 1..Len(entries) :
    LET name == entries[k].name
    IN IF kind = "docx" THEN ~StartsWith(name, prefixWord)
       ELSE IF kind = "pptx" THEN ~StartsWith(LowerCase(name), prefixSlide)
       ELSE IF kind = "xlsx" THEN ~StartsWith(LowerCase(name), prefixWorksheets)
       ELSE IF kind = "odf" THEN name # nameContentXml
       ELSE name \notin {nameIndexApxl, nameIndexApxlUpper}

\* C23: on a well-formed archive without the part or parts it reads (no word/
\* part, no slide, no worksheet, no content.xml, no index.apxl), each of the
\* five extractors returns the empty text; none raises an error.
MissingPartsGiveEmptyText ==
  offPc = "done" =>
    (LacksExpectedParts(offKind, offEntries) => offText = <<>>)

\* the Keynote extractor ran on an archive that holds a slide and a document
\* part but no index.apxl, and returned the empty text
WitnessKeynoteWithoutIndex ==
  /\ offPc = "done"
  /\ offKind = "keynote"
  /\ Len(offEntries) = 2
  /\ offEntries[1].name = nameDocument
  /\ IsSlidePart(offEntries[2].name)
  /\ offText = <<>>

\* where the text of slide n, or the cell of sheet n, begins in the output of
\* the extractor, 0 when it is not there
PlaceOf(kind, n, text) ==
  IndexOf(text, IF kind = "pptx" THEN SlideWords(n) ELSE SheetWords(n), 1)

\* the numbers of the slides, or of the sheets, that the archive holds
NumbersIn(kind, entries) ==
  IF kind = "pptx"
    THEN {n \in SlideNumbers : MapHas(entries, SlidePart(n).name)}
    ELSE {n \in SheetNumbers : MapHas(entries, SheetPart(n).name)}

\* C24: slides and worksheets come out in the numeric order of their part
\* names, whatever their order in the archive: for m < n the text of part m
\* precedes the text of part n, so slide10 follows slide9 and precedes
\* slide11.
PartsInNaturalOrder ==
  (offPc = "done" /\ offKind \in {"pptx", "xlsx"}) =>
    \A m \in NumbersIn(offKind, offEntries) :
      \A n \in NumbersIn(offKind, offEntries) :
        m < n =>
          /\ PlaceOf(offKind, m, offText) > 0
          /\ PlaceOf(offKind, m, offText) < PlaceOf(offKind, n, offText)

\* the archive holds slide10, slide11 and slide9 in this order; the text is
\* s9, s10, s11 with blank lines between
WitnessSlideTenAfterNine ==
  /\ offPc = "done"
  /\ offKind = "pptx"
  /\ offEntries = <<SlidePart(10), SlidePart(11), SlidePart(9)>>
  /\ offText = SlideWords(9) \o <<NL, NL>> \o SlideWords(10) \o <<NL, NL>>
               \o SlideWords(11)

\* the positions in the file list at which a name occurs
PositionsOf(files, name) == {k \in 1..Len(files) : files[k].name = name}

\* the names of the file list in the order of their first occurrence
RECURSIVE FirstOccurrences(_, _)
FirstOccurrences(files, k) ==
  IF k > Len(files) THEN <<>>
  ELSE (IF Min(PositionsOf(files, files[k].name)) = k
          THEN <<files[k].name>> ELSE <<>>)
       \o FirstOccurrences(files, k + 1)

\* C25: when several central-directory entries share a name, the mapping
\* parseZipEntries returns holds one entry for that name, with the bytes of
\* the last such entry; the names iterate in central-directory order, a name
\* that occurs again keeping the place of its first occurrence.
LastEntryOfANameWins ==
  storePc = "parsed" =>
    /\ storeOut.kind = "ok"
    /\ [k \in 1..Len(storeOut.entries) |-> storeOut.entries[k].name]
         = FirstOccurrences(storeFiles, 1)
    /\ \A k \in 1..Len(storeOut.entries) :
         storeOut.entries[k].data =
           storeFiles[Max(PositionsOf(storeFiles,
                                      storeOut.entries[k].name))].data

\* the files a (one byte), bc, a (three bytes): the mapping holds a with the
\* three bytes, then bc
WitnessSecondEntryReplacesFirst ==
  /\ storePc = "parsed"
  /\ Len(storeFiles) = 3
  /\ storeFiles[1] = [name |-> <<97>>, data |-> <<1>>]
  /\ storeFiles[2].name = <<98, 99>>
  /\ storeFiles[3] = [name |-> <<97>>, data |-> <<1, 2, 3>>]
  /\ Len(storeOut.entries) = 2
  /\ storeOut.entries[1] = [name |-> <<97>>, data |-> <<1, 2, 3>>]
  /\ storeOut.entries[2].name = <<98, 99>>

\* the threshold the size of the file is compared with: the configured
\* large-file threshold, 20 MB when none is configured
SizeThreshold(env) ==
  IF thresholdBytes(env) # 0 THEN thresholdBytes(env)
  ELSE DEFAULT_POPPLER_THRESHOLD_BYTES

\* extractPdf is past the decision on the fast path
FastPathDecided == pdfPc \notin {"idle", "start"}

FastPathAttempted == YieldOf(pdfLog, "pdftotext") # "notCalled"

RecognizedText(k) ==
  Join([i \in 1..k |-> ocrPageText], <<NL, NL>>)

\* the OCR fallback ran and pdftoppm left at least one page image
OcrSawImages == ocrRun.images >= 1

\* C27 as stated: for a PDF without embedded text that rasterizes to n >= 1
\* page images, the OCR fallback returns non-empty text and metadata whose
\* pages field equals n.
OcrPagesEqualsImages ==
  OcrSawImages => /\ rawText # <<>>
                  /\ ocrRun.pages = ocrRun.images

\* C27 amended: for a PDF without embedded text that rasterizes to n >= 1 page
\* images of which tesseract reads non-empty text on k, the OCR fallback
\* returns, when k >= 1, the k recognized texts in page order separated by
\* blank lines together with metadata whose pages field equals k, and no text
\* and no metadata when k = 0.
OcrPagesEqualsRecognizedPages ==
  OcrSawImages =>
    IF ocrRun.recognized >= 1
      THEN /\ rawText = RecognizedText(ocrRun.recognized)
           /\ rawText # <<>>
           /\ ocrRun.pages = ocrRun.recognized
    ELSE /\ NoText(rawText)
         /\ ocrRun.pages = NULL

\* two page images, one read and one without text: pages is 1
WitnessOnePageOfTwoRecognized ==
  /\ ocrRun.images = 2
  /\ ocrRun.recognized = 1
  /\ ocrRun.pages = 1
  /\ rawText = ocrPageText

(* ---- The summary of a run: one entry per discovered file ---- *)

\* how many entries of the skipped, renamed and errors lists are about the file
EntriesAbout(filePath) ==
  Cardinality({i \in DOMAIN renSummary.skipped :
                 renSummary.skipped[i].file = filePath})
  + Cardinality({i \in DOMAIN renSummary.renamed :
                   renSummary.renamed[i].original = filePath})
  + Cardinality({i \in DOMAIN renSummary.errors :
                   renSummary.errors[i].file = filePath})

\* the entries of the three lists together
SummaryEntries ==
  Len(renSummary.skipped) + Len(renSummary.renamed) + Len(renSummary.errors)

\* C28: while runRenamer walks the discovered files every file already
\* processed has exactly one entry among skipped, renamed (real or dry-run
\* preview) and errors and no file still to come has one; the loop ends only
\* after the last file, whatever failed before, and then the numbers of
\* renamed, skipped and error entries sum to the number of discovered files.
EveryFileOneSummaryEntry ==
  /\ \A i \in 1..Len(renFiles) :
       EntriesAbout(FileAt(rootDirectory, renFiles[i]))
         = IF i < renNext THEN 1 ELSE 0
  /\ SummaryEntries = IF renNext = 0 THEN 0 ELSE renNext - 1
  /\ renPc = "returned" => SummaryEntries = Len(renFiles)

\* the first of two files failed and the second was renamed all the same
WitnessRenamedAfterError ==
  /\ renPc = "returned"
  /\ Len(renFiles) = 2
  /\ ~renOptions.dryRun
  /\ Len(renSummary.errors) = 1
  /\ renSummary.errors[1].file = FileAt(rootDirectory, renFiles[1])
  /\ Len(renSummary.renamed) = 1
  /\ renSummary.renamed[1].original = FileAt(rootDirectory, renFiles[2])
  /\ renSummary.renamed[1].newName \in fsFiles

(* ---- processFile: no rename without confirmation ---- *)

\* the file is no longer where processFile found it, or bears another name
RenamedOrMoved == cfFile # OriginalFile

\* the user answered the question with y or yes, in any case and with any
\* blanks around it
AnsweredYes ==
  /\ cfAsked
  /\ LowerCase(Trim(cfAnswer)) \in {answerY, answerYes}

\* the user answered the question with an empty line
AnsweredNothing ==
  /\ cfAsked
  /\ Trim(cfAnswer) = <<>>

\* the rename was confirmed in one of the three ways
RenameConfirmed ==
  \/ cfOptions.forceChange
  \/ cfOptions.isTTY /\ AnsweredYes
  \/ cfOptions.isTTY /\ AnsweredNothing /\ cfOptions.acceptOnEnter

\* C29: processFile renames or moves a file only after the rename was
\* confirmed, by the force-change flag, an interactive y or yes, or an empty
\* answer when accept-default is on, and only when dry-run is off; without a
\* terminal and without force-change, after any other answer, and for a file
\* skipped or failed before the confirmation, the file stays where it is under
\* its name.
RenameOnlyAfterConfirmation ==
  /\ RenamedOrMoved => /\ RenameConfirmed
                       /\ cfConfirmed = "yes"
                       /\ ~cfOptions.dryRun
                       /\ cfEarly = "proposed"
  /\ (~cfOptions.isTTY /\ ~cfOptions.forceChange) => ~RenamedOrMoved
  /\ (cfPc = "done" /\ cfEarly = "proposed" /\ ~RenameConfirmed)
       => /\ ~RenamedOrMoved
          /\ cfOutcomes = <<"processed", "skipped">>
  /\ cfEarly \in {"skipped", "error"} => ~RenamedOrMoved

\* an empty answer under accept-default, without force-change: the file is
\* renamed and moved to its subject folder
WitnessRenamedOnEmptyAnswer ==
  /\ ~cfOptions.forceChange
  /\ cfOptions.acceptOnEnter
  /\ cfAsked
  /\ cfAnswer = <<>>
  /\ cfFile = [dir |-> "subject", name |-> "proposed"]
  /\ cfPc = "done"

(* ---- ensureUniqueName: the first free candidate ---- *)

\* the k-th name ensureUniqueName tries for filename: filename itself, then
\* name-1.ext, name-2.ext, ...
CandidateName(filename, k) ==
  IF k = 0 THEN filename
  ELSE LET ext == extname(filename)
       IN SubSeq(filename, 1, Len(filename) - Len(ext))
            \o <<HYPHEN>> \o Digits(k) \o ext

\* the directories a file may be destined for
DestinationDirectories ==
  {rootDirectory, <<"root", "Acme">>, <<"root", "Unknown">>}

\* in the folder as it is, ensureUniqueName returns for every directory and
\* every name the first candidate that does not exist, after at most as many
\* existing candidates as the directory has entries
ChoosesFirstFreeCandidate(files) ==
  \A targetDir \in DestinationDirectories, filename \in RenNames :
    LET chosen == ensureUniqueName(targetDir, filename, files)
        entries == {f \in files : f.dir = targetDir}
    IN /\ FileAt(targetDir, chosen) \notin files
       /\ \E k \in 0..Cardinality(entries) :
            /\ chosen = CandidateName(filename, k)
            /\ \A j \in 0..(k - 1) :
                 FileAt(targetDir, CandidateName(filename, j)) \in files

\* a step of runRenamer that adds an entry to the renamed list
AddsRename == Len(renSummary'.renamed) > Len(renSummary.renamed)

\* C30: the name ensureUniqueName chooses designates no existing entry of the
\* destination directory at the time of the check: it is the first of name,
\* name-1, name-2, ... that does not exist, found after at most as many tries
\* as the directory has entries; and the path runRenamer renames a file to, or
\* previews, is one the check found free in the folder as it was.
RenameTargetsFreePath ==
  [][/\ ChoosesFirstFreeCandidate(fsFiles)
     /\ ChoosesFirstFreeCandidate(fsFiles')
     /\ AddsRename =>
          LET entry == renSummary'.renamed[Len(renSummary'.renamed)]
          IN /\ entry.newName \notin fsFiles
             /\ ~renOptions.dryRun => entry.newName \in fsFiles']_vars

\* a.txt and a-1.txt exist: the file is renamed to a-2.txt
WitnessSecondSuffixChosen ==
  /\ ~renOptions.dryRun
  /\ \E i \in DOMAIN renSummary.renamed :
       /\ renSummary.renamed[i].newName
            = FileAt(rootDirectory, <<97, 45, 50, 46, 116, 120, 116>>)
       /\ renSummary.renamed[i].newName \in fsFiles

====
